---- MODULE Spec2Model ----
(***************************************************************************)
(* gotilert: a Gotify-compatible POST /message endpoint that turns each    *)
(* accepted message into one Alertmanager alert and delivers it with a     *)
(* bounded retry loop.                                                     *)
(*                                                                         *)
(* Backoff durations are in milliseconds; the wall clock and the ttl are   *)
(* in ticks of the clock.  A Go error is modelled by the set of shapes     *)
(* errors.Is / errors.As can find in its chain ("tags") and the HTTP       *)
(* status code of the *statusError in the chain (0 when there is none).    *)
(***************************************************************************)
EXTENDS Integers, Sequences, FiniteSets, TLC

(***************************************************************************)
(* Bounds of the model.                                                    *)
(***************************************************************************)
\* Number of POST /message requests handled concurrently.
NumRequests == 2
\* Last instant of the wall clock; time.Now() reads 0..MaxNow.
MaxNow == 2
\* Largest attempt number computeBackoff is evaluated at in SpecBackoff.
MaxBackoffAttempt == 6
\* Largest message priority severityForPriority is evaluated at.
MaxPriority == 8
\* Latest deadline an inbound request's context carries in SpecTimeout.
MaxDeadline == 6

(***************************************************************************)
(* Program constants (internal/alertmanager/client.go).                    *)
(***************************************************************************)
defaultRetryMaxAttempts == 3
defaultRetryInitial == 200
defaultRetryMaxBackoff == 1000

(***************************************************************************)
(* Strings.                                                                *)
(***************************************************************************)
IsSpace(c) == c \in {" ", "\t", "\n", "\r"}

RECURSIVE TrimLeft(_)
TrimLeft(s) ==
    IF Len(s) > 0 /\ IsSpace(SubSeq(s, 1, 1))
    THEN TrimLeft(SubSeq(s, 2, Len(s)))
    ELSE s

RECURSIVE TrimRight(_)
TrimRight(s) ==
    IF Len(s) > 0 /\ IsSpace(SubSeq(s, Len(s), Len(s)))
    THEN TrimRight(SubSeq(s, 1, Len(s) - 1))
    ELSE s

\* strings.TrimSpace
TrimSpace(s) == TrimRight(TrimLeft(s))

DecimalDigit(d) ==
    CASE d = 0 -> "0" [] d = 1 -> "1" [] d = 2 -> "2" [] d = 3 -> "3"
      [] d = 4 -> "4" [] d = 5 -> "5" [] d = 6 -> "6" [] d = 7 -> "7"
      [] d = 8 -> "8" [] d = 9 -> "9"

\* strconv.FormatUint(n, 10)
RECURSIVE FormatUint(_)
FormatUint(n) ==
    IF n < 10 THEN DecimalDigit(n)
    ELSE FormatUint(n \div 10) \o DecimalDigit(n % 10)

\* strconv.Itoa
Itoa(n) == IF n < 0 THEN "-" \o FormatUint(0 - n) ELSE FormatUint(n)

DigitValue(c) ==
    CASE c = "0" -> 0 [] c = "1" -> 1 [] c = "2" -> 2 [] c = "3" -> 3
      [] c = "4" -> 4 [] c = "5" -> 5 [] c = "6" -> 6 [] c = "7" -> 7
      [] c = "8" -> 8 [] c = "9" -> 9 [] OTHER -> -1

\* The number a string of decimal digits denotes, -1 when it is not one.
RECURSIVE DecimalValue(_)
DecimalValue(s) ==
    IF Len(s) = 0 THEN -1
    ELSE LET last == DigitValue(SubSeq(s, Len(s), Len(s)))
         IN  IF last < 0 THEN -1
             ELSE IF Len(s) = 1 THEN last
             ELSE LET front == DecimalValue(SubSeq(s, 1, Len(s) - 1))
                  IN  IF front < 0 THEN -1 ELSE 10 * front + last

\* The first position of character c in s, 0 when it does not occur.
RECURSIVE IndexFrom(_, _, _)
IndexFrom(s, c, i) ==
    IF i > Len(s) THEN 0
    ELSE IF SubSeq(s, i, i) = c THEN i
    ELSE IndexFrom(s, c, i + 1)

IndexOf(s, c) == IndexFrom(s, c, 1)

\* strconv.Atoi: an optional sign and decimal digits, nothing else.
Atoi(s) ==
    LET signed == Len(s) > 0 /\ SubSeq(s, 1, 1) \in {"-", "+"}
        digits == IF signed THEN SubSeq(s, 2, Len(s)) ELSE s
        value == DecimalValue(digits)
    IN  IF value < 0 THEN [value |-> 0, ok |-> FALSE]
        ELSE IF signed /\ SubSeq(s, 1, 1) = "-" THEN [value |-> 0 - value, ok |-> TRUE]
        ELSE [value |-> value, ok |-> TRUE]

(***************************************************************************)
(* Errors of the delivery client.                                          *)
(***************************************************************************)
\* The nil error.
NilErr == [tags |-> {}, code |-> 0]

\* Shapes a transport error returned by httpClient.Do can carry.
TransportShapes ==
    {"Canceled", "DeadlineExceeded", "netTimeout", "OpError",
     "UnknownAuthorityError", "HostnameError", "CertificateInvalidError",
     "SystemRootsError", "RecordHeaderError"}

\* fmt.Errorf("%w: %w", ErrDoRequest, err) for a transport error of the
\* given shapes; no shape at all is an error of unknown type.
DoRequestErr(shapes) == [tags |-> {"ErrDoRequest"} \cup shapes, code |-> 0]

\* resp.Status, the status line's code and reason phrase; the phrase is the
\* upstream's and is written "Reason".
Status(code) == Itoa(code) \o " Reason"

\* fmt.Errorf("%w: %w", ErrUpstreamNon2xx, &statusError{statusCode: code,
\* body: resp.Status}), the error for a response whose body is blank.
UpstreamNon2xxErr(code) ==
    [tags |-> {"ErrUpstreamNon2xx", "statusError"}, code |-> code,
     body |-> Status(code)]

\* What httpClient.Do hands back: a response with a status code, or a
\* transport error.
Response(code) == [kind |-> "response", code |-> code, shapes |-> {}]
TransportFailure(shapes) == [kind |-> "error", code |-> 0, shapes |-> shapes]

\* A response that carries a body.  Response(code) is the response with an
\* empty body, for which the statusError holds resp.Status.
ResponseWithBody(code, text) ==
    [kind |-> "response", code |-> code, shapes |-> {}, body |-> text]

\* A response whose body cannot be read to its end.
ResponseUnreadable(code) ==
    [kind |-> "response", code |-> code, shapes |-> {}, readErr |-> TRUE]

\* The statusError of a response with a body holds the trimmed body.
UpstreamNon2xxErrBody(code, text) ==
    ("body" :> TrimSpace(text)) @@ UpstreamNon2xxErr(code)

\* fmt.Errorf("%w: %w", ErrReadResponseBody, readErr)
ReadResponseBodyErr == [tags |-> {"ErrReadResponseBody"}, code |-> 0]

maxErrorBodyBytes == 65536

\* io.ReadAll(io.LimitReader(resp.Body, maxErrorBodyBytes))
LimitedRead(text) ==
    IF Len(text) <= maxErrorBodyBytes THEN text
    ELSE SubSeq(text, 1, maxErrorBodyBytes)

\* postAlertsOnceResult as it would be reading the whole body.
postAlertsOnceResultWholeBody(outcome) ==
    IF outcome.kind = "error" THEN DoRequestErr(outcome.shapes)
    ELSE IF outcome.code < 200 \/ outcome.code >= 300
         THEN IF "readErr" \in DOMAIN outcome THEN ReadResponseBodyErr
              ELSE IF "body" \in DOMAIN outcome /\ TrimSpace(outcome.body) # ""
              THEN UpstreamNon2xxErrBody(outcome.code, outcome.body)
              ELSE UpstreamNon2xxErr(outcome.code)
         ELSE NilErr

\* The error postAlertsOnce returns for the outcome of httpClient.Do.
postAlertsOnceResult(outcome) ==
    IF outcome.kind = "error" THEN DoRequestErr(outcome.shapes)
    ELSE IF outcome.code < 200 \/ outcome.code >= 300
         THEN IF "readErr" \in DOMAIN outcome THEN ReadResponseBodyErr
              ELSE IF "body" \in DOMAIN outcome
                      /\ TrimSpace(LimitedRead(outcome.body)) # ""
              THEN UpstreamNon2xxErrBody(outcome.code, LimitedRead(outcome.body))
              ELSE UpstreamNon2xxErr(outcome.code)
         ELSE NilErr

isPermanentTLSError(err) ==
    \/ "UnknownAuthorityError" \in err.tags
    \/ "HostnameError" \in err.tags
    \/ "CertificateInvalidError" \in err.tags
    \/ "SystemRootsError" \in err.tags
    \/ "RecordHeaderError" \in err.tags

\* shouldRetry as it would be if only 429 were retried
shouldRetryOnly429(err) ==
    IF err = NilErr THEN FALSE
    ELSE IF "Canceled" \in err.tags \/ "DeadlineExceeded" \in err.tags THEN FALSE
    ELSE IF isPermanentTLSError(err) THEN FALSE
    ELSE IF "statusError" \in err.tags THEN err.code = 429
    ELSE IF "ErrDoRequest" \in err.tags
         THEN IF "netTimeout" \in err.tags THEN TRUE ELSE "OpError" \in err.tags
    ELSE FALSE

\* shouldRetry as it would be if every upstream status were retried
shouldRetryAnyStatus(err) ==
    IF err = NilErr THEN FALSE
    ELSE IF "Canceled" \in err.tags \/ "DeadlineExceeded" \in err.tags THEN FALSE
    ELSE IF isPermanentTLSError(err) THEN FALSE
    ELSE IF "statusError" \in err.tags THEN TRUE
    ELSE IF "ErrDoRequest" \in err.tags
         THEN IF "netTimeout" \in err.tags THEN TRUE ELSE "OpError" \in err.tags
    ELSE FALSE

\* shouldRetry as it would be if every transport error were retried
shouldRetryFailOpen(err) ==
    IF err = NilErr THEN FALSE
    ELSE IF "Canceled" \in err.tags \/ "DeadlineExceeded" \in err.tags THEN FALSE
    ELSE IF isPermanentTLSError(err) THEN FALSE
    ELSE IF "statusError" \in err.tags
         THEN IF err.code = 429 THEN TRUE ELSE err.code >= 500
    ELSE "ErrDoRequest" \in err.tags

\* shouldRetry as it would be looking at the transport shapes first
shouldRetryTransportFirst(err) ==
    IF err = NilErr THEN FALSE
    ELSE IF "ErrDoRequest" \in err.tags
            /\ ("netTimeout" \in err.tags \/ "OpError" \in err.tags) THEN TRUE
    ELSE IF "Canceled" \in err.tags \/ "DeadlineExceeded" \in err.tags THEN FALSE
    ELSE IF isPermanentTLSError(err) THEN FALSE
    ELSE IF "statusError" \in err.tags
         THEN IF err.code = 429 THEN TRUE ELSE err.code >= 500
    ELSE FALSE

shouldRetry(err) ==
    IF err = NilErr THEN FALSE
    ELSE IF "Canceled" \in err.tags \/ "DeadlineExceeded" \in err.tags THEN FALSE
    ELSE IF isPermanentTLSError(err) THEN FALSE
    ELSE IF "statusError" \in err.tags
         THEN IF err.code = 429 THEN TRUE ELSE err.code >= 500
    ELSE IF "ErrDoRequest" \in err.tags
         THEN IF "netTimeout" \in err.tags THEN TRUE ELSE "OpError" \in err.tags
    ELSE FALSE

RECURSIVE backoffLoop(_, _, _, _)
backoffLoop(i, attempt, backoff, maxBackoff) ==
    IF i < attempt
    THEN IF backoff * 2 >= maxBackoff
         THEN maxBackoff
         ELSE backoffLoop(i + 1, attempt, backoff * 2, maxBackoff)
    ELSE IF backoff > maxBackoff THEN maxBackoff ELSE backoff

RECURSIVE doubled(_, _)
doubled(n, value) == IF n <= 0 THEN value ELSE doubled(n - 1, value * 2)

\* computeBackoff as it would be without the cap
computeBackoffUncapped(attempt, initial, maxBackoff) ==
    IF attempt <= 1 THEN initial ELSE doubled(attempt - 1, initial)

computeBackoff(attempt, initial, maxBackoff) ==
    IF attempt <= 1 THEN initial
    ELSE backoffLoop(1, attempt, initial, maxBackoff)

(***************************************************************************)
(* Configuration: a loaded and validated config.Config.                    *)
(***************************************************************************)
\* A Go map is a function; the nil or empty map has the empty domain.
EmptyMap == [k \in {} |-> ""]

cfg ==
    [Defaults |->
        [AlertName |-> "GotilertNotification",
         TTL |-> 3,
         SeverityFromPriority |-> (0 :> "info" @@ 1 :> "warning" @@ 2 :> "critical"),
         Labels |-> ("source" :> "gotilert" @@ "app" :> "from-defaults")],
     Apps |->
        ("TOKEN_A" :>
            [AppName |-> "truenas",
             AlertName |-> "",
             Labels |-> ("source" :> "nas" @@ "gotilert_id" :> "from-app"),
             SeverityFromPriority |-> [k \in {} |-> ""]]
         @@
         "TOKEN_B" :>
            [AppName |-> "backup",
             AlertName |-> " BackupAlert ",
             Labels |-> [k \in {} |-> ""],
             SeverityFromPriority |-> (4 :> "warning" @@ 8 :> "critical")])]

\* maps.Copy into a fresh map
copyLabels(input) == [k \in DOMAIN input |-> input[k]]

copySeverityMap(input) == [k \in DOMAIN input |-> input[k]]

\* mergeStringMap(dst, src): the value of dst afterwards
mergeStringMap(dst, src) ==
    IF DOMAIN src = {} THEN dst
    ELSE [k \in DOMAIN dst \cup DOMAIN src |->
            IF k \in DOMAIN src THEN src[k] ELSE dst[k]]

\* labels[key] = value
SetKey(labels, key, value) ==
    [k \in DOMAIN labels \cup {key} |-> IF k = key THEN value ELSE labels[k]]

\* FNV-1a is abstracted to an injective numbering of the configured names.
appIDFromName(appName) ==
    CASE appName = "truenas" -> 1 [] appName = "backup" -> 2 [] OTHER -> 0

\* The table newResolveAppFunc builds from a configuration.
newResolveAppFunc(config) ==
    [token \in DOMAIN config.Apps |->
        [Name |-> config.Apps[token].AppName,
         ID |-> appIDFromName(config.Apps[token].AppName),
         AlertName |-> TrimSpace(config.Apps[token].AlertName),
         Labels |-> copyLabels(config.Apps[token].Labels),
         SeverityFromPriority |->
             copySeverityMap(config.Apps[token].SeverityFromPriority)]]

\* The table of the running configuration, and the lookup closure.
apps == newResolveAppFunc(cfg)

NoApp == [Name |-> "", ID |-> 0, AlertName |-> "", Labels |-> EmptyMap,
          SeverityFromPriority |-> EmptyMap]

resolveApp(token) ==
    IF token \in DOMAIN apps THEN [app |-> apps[token], ok |-> TRUE]
    ELSE [app |-> NoApp, ok |-> FALSE]

(***************************************************************************)
(* Alert transformation (cmd/gotilert/main.go).                            *)
(***************************************************************************)
\* The orders in which `for key := range mapping` can visit the keys.
KeyOrders(mapping) ==
    {order \in [1..Cardinality(DOMAIN mapping) -> DOMAIN mapping] :
        \A i, j \in DOMAIN order : i # j => order[i] # order[j]}

RECURSIVE bestKeyLoop(_, _, _, _)
bestKeyLoop(order, priority, bestKey, bestSet) ==
    IF order = <<>> THEN bestKey
    ELSE LET key == Head(order)
             rest == Tail(order)
         IN  IF ~bestSet THEN bestKeyLoop(rest, priority, key, TRUE)
             ELSE IF key <= priority /\ bestKey <= priority
                  THEN bestKeyLoop(rest, priority,
                                   IF key > bestKey THEN key ELSE bestKey, TRUE)
             ELSE IF bestKey > priority /\ key < bestKey
                  THEN bestKeyLoop(rest, priority, key, TRUE)
             ELSE bestKeyLoop(rest, priority, bestKey, TRUE)

\* severityForPriority as it would be if the first key visited were taken
\* when the priority is not a key
severityForPriorityFirstKey(mapping, priority, order) ==
    IF priority \in DOMAIN mapping THEN mapping[priority]
    ELSE IF order = <<>> THEN "info"
    ELSE mapping[Head(order)]

\* severityForPriority, with the map visited in the given order
severityForPriority(mapping, priority, order) ==
    IF priority \in DOMAIN mapping THEN mapping[priority]
    ELSE LET bestKey == bestKeyLoop(order, priority, 0, FALSE)
         IN  IF bestKey \in DOMAIN mapping THEN mapping[bestKey] ELSE "info"

\* A Go string is a sequence of bytes and len counts bytes: each character
\* of a text of the model is one byte.  "..." stands for the marker literal
\* of the source.
pickSummary(appName, title, message) ==
    LET trimmedTitle == TrimSpace(title)
        trimmedMessage == TrimSpace(message)
    IN  IF trimmedTitle # "" THEN trimmedTitle
        ELSE IF trimmedMessage = "" THEN appName
        ELSE IF Len(trimmedMessage) <= 120 THEN trimmedMessage
        ELSE SubSeq(trimmedMessage, 1, 120) \o "..."

\* An extras value is a tree: [t |-> "map", m |-> key -> tree],
\* [t |-> "string", v |-> s] or [t |-> "other"] (number, boolean, list).
NilExtras == [t |-> "map", m |-> [k \in {} |-> ""]]

RECURSIVE extrasStringAtPath(_, _)
extrasStringAtPath(current, path) ==
    IF path = <<>>
    THEN IF current.t # "string" THEN [s |-> "", ok |-> FALSE]
         ELSE IF TrimSpace(current.v) = "" THEN [s |-> "", ok |-> FALSE]
         ELSE [s |-> TrimSpace(current.v), ok |-> TRUE]
    ELSE IF current.t # "map" THEN [s |-> "", ok |-> FALSE]
    ELSE IF Head(path) \notin DOMAIN current.m THEN [s |-> "", ok |-> FALSE]
    ELSE extrasStringAtPath(current.m[Head(path)], Tail(path))

ExtrasPaths ==
    ("gotify_content_type" :> <<"client::display", "contentType">>
     @@ "gotify_click_url" :> <<"client::notification", "click", "url">>
     @@ "gotify_big_image_url" :> <<"client::notification", "bigImageUrl">>
     @@ "gotify_on_receive_intent_url" :>
            <<"android::action", "onReceive", "intentUrl">>)

ExtrasAnnotations(extras) ==
    IF DOMAIN extras.m = {} THEN EmptyMap
    ELSE LET found == {a \in DOMAIN ExtrasPaths :
                          extrasStringAtPath(extras, ExtrasPaths[a]).ok}
         IN  [a \in found |-> extrasStringAtPath(extras, ExtrasPaths[a]).s]

\* the label merge as it would be with the per-app labels copied in last
forwarderLabelsAppLast(defaultLabels, appLabels, alertName, appName, severity, priority, id) ==
    mergeStringMap(
        SetKey(SetKey(SetKey(SetKey(SetKey(copyLabels(defaultLabels),
            "alertname", alertName),
            "app", appName),
            "severity", severity),
            "priority", Itoa(priority)),
            "gotilert_id", FormatUint(id)),
        appLabels)

\* The labels of the alert: a copy of the default labels, the per-app labels
\* copied over it, then the five computed labels assigned.
forwarderLabels(defaultLabels, appLabels, alertName, appName, severity, priority, id) ==
    SetKey(SetKey(SetKey(SetKey(SetKey(
        mergeStringMap(copyLabels(defaultLabels), appLabels),
        "alertname", alertName),
        "app", appName),
        "severity", severity),
        "priority", Itoa(priority)),
        "gotilert_id", FormatUint(id))

\* A forwarder that lays the app's severity map over the default one key
\* by key.
newForwarderMergedSeverity(defaults, app, msg, messageIdentifier, order, now) ==
    LET severityMap == mergeStringMap(defaults.SeverityFromPriority,
                                      app.SeverityFromPriority)
        alertName == IF TrimSpace(app.AlertName) # ""
                     THEN TrimSpace(app.AlertName)
                     ELSE defaults.AlertName
        severity == severityForPriority(severityMap, msg.Priority, order)
        labels == forwarderLabels(copyLabels(defaults.Labels), app.Labels,
                                  alertName, app.Name, severity, msg.Priority,
                                  messageIdentifier)
        annotations ==
            mergeStringMap(
                ("summary" :> pickSummary(app.Name, msg.Title, msg.Message)
                 @@ "description" :> msg.Message),
                ExtrasAnnotations(msg.Extras))
    IN  [Labels |-> labels,
         Annotations |-> annotations,
         StartsAt |-> now,
         EndsAt |-> now + defaults.TTL]

\* The alert the closure of newForwarder builds for one message from the
\* defaults of the configuration it was made with: `order` is the order the
\* severity map is ranged over, `now` the reading of time.Now().
newForwarder(defaults, app, msg, messageIdentifier, order, now) ==
    LET severityMap == IF DOMAIN app.SeverityFromPriority # {}
                       THEN app.SeverityFromPriority
                       ELSE defaults.SeverityFromPriority
        alertName == IF TrimSpace(app.AlertName) # ""
                     THEN TrimSpace(app.AlertName)
                     ELSE defaults.AlertName
        severity == severityForPriority(severityMap, msg.Priority, order)
        labels == forwarderLabels(copyLabels(defaults.Labels), app.Labels,
                                  alertName, app.Name, severity, msg.Priority,
                                  messageIdentifier)
        annotations ==
            mergeStringMap(
                ("summary" :> pickSummary(app.Name, msg.Title, msg.Message)
                 @@ "description" :> msg.Message),
                ExtrasAnnotations(msg.Extras))
    IN  [Labels |-> labels,
         Annotations |-> annotations,
         StartsAt |-> now,
         EndsAt |-> now + defaults.TTL]

\* The alert built under the running configuration.
BuildAlert(app, msg, messageIdentifier, order, now) ==
    newForwarder(cfg.Defaults, app, msg, messageIdentifier, order, now)

\* The severity map the forwarder ranges over for the app.
SeverityMapFor(app) ==
    IF DOMAIN app.SeverityFromPriority # {}
    THEN app.SeverityFromPriority
    ELSE cfg.Defaults.SeverityFromPriority

(***************************************************************************)
(* Inputs.                                                                 *)
(***************************************************************************)
Requests == 1..NumRequests

\* A validated gotify.MessageRequest.
Msg(message, title, priority, extras) ==
    [Message |-> message, Title |-> title, Priority |-> priority, Extras |-> extras]

NoMsg == Msg("", "", 0, NilExtras)

SampleExtras ==
    [t |-> "map",
     m |-> ("client::display" :>
                [t |-> "map",
                 m |-> ("contentType" :> [t |-> "string", v |-> " text/markdown "])]
            @@ "client::notification" :> [t |-> "other"])]

\* An inbound request as the handler sees it: the method, the token
\* extractToken finds, and what gotify.ParseMessageRequest makes of the body
\* (parseErr = "" when it returns a message).
Request(method, token, parseErr, msg) ==
    [Method |-> method, Token |-> token, ParseErr |-> parseErr, Msg |-> msg]

\* Requests sent to the server when several are handled concurrently.
ServerRequests ==
    {Request("GET", "TOKEN_A", "", Msg("hello", "", 5, NilExtras)),
     Request("POST", "UNKNOWN", "", Msg("hello", "", 5, NilExtras)),
     Request("POST", "TOKEN_A", "ErrMessageRequired", NoMsg),
     Request("POST", "TOKEN_A", "", Msg("hello", "", 5, NilExtras)),
     Request("POST", "TOKEN_B", "", Msg("disk full", "nas", 7, NilExtras))}

\* Requests sent when one delivery is followed attempt by attempt.
DeliveryRequests ==
    {Request("POST", "TOKEN_A", "", Msg("hello", "", 1, SampleExtras)),
     Request("POST", "TOKEN_B", "", Msg("disk full", " nas ", 7, NilExtras)),
     Request("POST", "TOKEN_B", "ErrInvalidPriority", NoMsg),
     Request("POST", "TOKEN_A", "ErrMessageRequired", NoMsg),
     Request("POST", "TOKEN_A", "ErrUnsupportedContentType", NoMsg),
     Request("POST", "TOKEN_B", "decode json", NoMsg),
     Request("POST", "", "", Msg("hello", "", 5, NilExtras)),
     Request("POST", "UNKNOWN", "", Msg("hello", "", 5, NilExtras)),
     Request("POST", "UNKNOWN", "ErrMessageRequired", NoMsg),
     Request("GET", "TOKEN_A", "", Msg("hello", "", 5, NilExtras))}

\* What the upstream can answer to one exchange.
ServerOutcomes == {Response(200), Response(503)}

DeliveryOutcomes ==
    {Response(200), Response(204), Response(400), Response(404),
     Response(429), Response(500), Response(503),
     TransportFailure({"netTimeout"}), TransportFailure({"OpError"}),
     TransportFailure({"UnknownAuthorityError"}),
     TransportFailure({"RecordHeaderError"}), TransportFailure({}),
     ResponseWithBody(401, " invalid credentials for tenant-7 "),
     ResponseWithBody(503, "overloaded")}

(***************************************************************************)
(* State.                                                                  *)
(***************************************************************************)
VARIABLES
    messageID,        \* server.messageID, the process-wide atomic counter
    now,              \* the wall clock read by time.Now()
    forwarded,        \* metrics: forwarded alerts, by app name
    upstreamFailures, \* metrics: upstream failures, by app name
    pc,               \* where each request's handler stands
    request,          \* the request each handler serves
    app,              \* the App authenticate resolved
    messageIdentifier,\* the id messageID.Add(1) returned to the handler
    alert,            \* the alert the forwarder built
    ctxErr,           \* forwardCtx.Err(): "nil", "Canceled", "DeadlineExceeded"
    attempt,          \* PostAlerts: the loop variable
    err,              \* PostAlerts: the error of the last postAlertsOnce
    backoff,          \* PostAlerts: the backoff of the sleep in progress
    posted,           \* the batches handed to httpClient.Do, in order
    outcomes,         \* what httpClient.Do returned to each of them
    sleeps,           \* number of sleepWithContext calls of the delivery
    postErr,          \* what PostAlerts returned
    status,           \* the status written to the response (0: none yet)
    body,             \* the JSON payload written to the response
    wired,            \* which collaborators server.New was given
    call              \* a pure function under evaluation: its input and result

vars ==
    <<messageID, now, forwarded, upstreamFailures, pc, request, app,
      messageIdentifier, alert, ctxErr, attempt, err, backoff, posted,
      outcomes, sleeps, postErr, status, body, wired, call>>

shared == <<messageID, now, forwarded, upstreamFailures, wired>>
response == <<status, body>>
delivery == <<attempt, err, backoff, posted, outcomes, sleeps, postErr>>

AppNames == {apps[t].Name : t \in DOMAIN apps}

NoAlert == [Labels |-> EmptyMap, Annotations |-> EmptyMap, StartsAt |-> 0, EndsAt |-> 0]
NoRequest == Request("", "", "", NoMsg)
NoCall == [fn |-> "none"]
NoBody == [none |-> TRUE]

\* The retry settings New gives every Client.
client == [retryMaxAttempts |-> defaultRetryMaxAttempts,
           retryInitial |-> defaultRetryInitial,
           retryMaxBackoff |-> defaultRetryMaxBackoff]

\* the loop bound as it would be with attempt < attempts + 1 read as the
\* number of retries
attemptsOneMore == client.retryMaxAttempts + 1

\* attempts := max(client.retryMaxAttempts, 1)
attempts == IF client.retryMaxAttempts > 1 THEN client.retryMaxAttempts ELSE 1

InitHandlers ==
    /\ messageID = 0
    /\ now = 0
    /\ forwarded = [a \in AppNames |-> 0]
    /\ upstreamFailures = [a \in AppNames |-> 0]
    /\ pc = [r \in Requests |-> "idle"]
    /\ request = [r \in Requests |-> NoRequest]
    /\ app = [r \in Requests |-> NoApp]
    /\ messageIdentifier = [r \in Requests |-> 0]
    /\ alert = [r \in Requests |-> NoAlert]
    /\ ctxErr = [r \in Requests |-> "nil"]
    /\ attempt = [r \in Requests |-> 0]
    /\ err = [r \in Requests |-> NilErr]
    /\ backoff = [r \in Requests |-> 0]
    /\ posted = [r \in Requests |-> <<>>]
    /\ outcomes = [r \in Requests |-> <<>>]
    /\ sleeps = [r \in Requests |-> 0]
    /\ postErr = [r \in Requests |-> NilErr]
    /\ status = [r \in Requests |-> 0]
    /\ body = [r \in Requests |-> NoBody]

\* buildHTTPServer gives server.New a resolver and a forwarder.
InitServer ==
    /\ InitHandlers
    /\ wired = [resolve |-> TRUE, forward |-> TRUE]

Init == InitServer /\ call = NoCall

(***************************************************************************)
(* internal/server/message.go                                              *)
(***************************************************************************)
\* messageID.Add(1): the new value of the counter
AtomicAddLost(counter, delta) == counter

AtomicAdd(counter, delta) == counter + delta

\* authenticate as it would be if a token the table does not know were let
\* through as the first app
authenticateAnyToken(req, resolve) ==
    IF ~resolve THEN [app |-> NoApp, ok |-> FALSE]
    ELSE IF req.Token = "" THEN [app |-> NoApp, ok |-> FALSE]
    ELSE IF resolveApp(req.Token).ok THEN resolveApp(req.Token)
    ELSE [app |-> apps["TOKEN_A"], ok |-> TRUE]

\* authenticate; `resolve` tells whether a resolver is wired (not nil).
authenticate(req, resolve) ==
    IF ~resolve THEN [app |-> NoApp, ok |-> FALSE]
    ELSE IF req.Token = "" THEN [app |-> NoApp, ok |-> FALSE]
    ELSE resolveApp(req.Token)

\* writeJSONError: the payload is the text of the error, a fixed text for
\* each sentinel (named here by the sentinel).
errorBody(sentinel) == [error |-> sentinel]

\* The acknowledgment as it would be with the app's id in the place of the
\* message's.
MessageResponseAppID(id, application, msg, date) ==
    [id |-> application.ID, appid |-> application.ID, message |-> msg.Message,
     title |-> msg.Title, priority |-> msg.Priority, date |-> date,
     extras |-> msg.Extras]

\* gotify.MessageResponse for an accepted message.
MessageResponse(id, application, msg, date) ==
    [id |-> id, appid |-> application.ID, message |-> msg.Message,
     title |-> msg.Title, priority |-> msg.Priority, date |-> date,
     extras |-> msg.Extras]

HasPrefix(s, prefix) ==
    Len(s) >= Len(prefix) /\ SubSeq(s, 1, Len(prefix)) = prefix

UpperLetters == "ABCDEFGHIJKLMNOPQRSTUVWXYZ"
LowerLetters == "abcdefghijklmnopqrstuvwxyz"

LowerChar(c) ==
    IF \E i \in 1..Len(UpperLetters) : SubSeq(UpperLetters, i, i) = c
    THEN LET i == CHOOSE i \in 1..Len(UpperLetters) : SubSeq(UpperLetters, i, i) = c
         IN  SubSeq(LowerLetters, i, i)
    ELSE c

\* strings.ToLower
RECURSIVE ToLower(_)
ToLower(s) ==
    IF Len(s) = 0 THEN s
    ELSE LowerChar(SubSeq(s, 1, 1)) \o ToLower(SubSeq(s, 2, Len(s)))

bearerPrefix == "bearer "

\* extractToken as it would be with the query parameter looked at first
extractTokenQueryFirst(header, query, authorization) ==
    IF TrimSpace(query) # "" THEN TrimSpace(query)
    ELSE IF TrimSpace(header) # "" THEN TrimSpace(header)
    ELSE LET authHeader == TrimSpace(authorization)
         IN  IF authHeader = "" THEN ""
             ELSE IF ~HasPrefix(ToLower(authHeader), bearerPrefix) THEN ""
             ELSE TrimSpace(SubSeq(authHeader, Len(bearerPrefix) + 1, Len(authHeader)))

\* extractToken, given the X-Gotify-Key header, the token query parameter
\* and the Authorization header of the request ("" when absent).
extractToken(header, query, authorization) ==
    IF TrimSpace(header) # "" THEN TrimSpace(header)
    ELSE IF TrimSpace(query) # "" THEN TrimSpace(query)
    ELSE LET authHeader == TrimSpace(authorization)
         IN  IF authHeader = "" THEN ""
             ELSE IF ~HasPrefix(ToLower(authHeader), bearerPrefix) THEN ""
             ELSE TrimSpace(SubSeq(authHeader, Len(bearerPrefix) + 1, Len(authHeader)))

\* The handler writes its reply and returns.
Reply(r, code, payload) ==
    /\ status' = [status EXCEPT ![r] = code]
    /\ body' = [body EXCEPT ![r] = payload]
    /\ pc' = [pc EXCEPT ![r] = "done"]

\* messageHandler as it would be with the body parsed before the token is
\* looked at
messageHandlerParseFirst(r, req) ==
    /\ pc[r] = "idle"
    /\ request' = [request EXCEPT ![r] = req]
    /\ IF req.Method # "POST"
       THEN /\ Reply(r, 405, errorBody("ErrMethodNotAllowed"))
            /\ UNCHANGED <<messageID, app, messageIdentifier>>
       ELSE IF req.ParseErr # ""
       THEN /\ Reply(r, 400, errorBody(req.ParseErr))
            /\ UNCHANGED <<messageID, app, messageIdentifier>>
       ELSE IF ~authenticate(req, wired.resolve).ok
       THEN /\ Reply(r, 403, errorBody("ErrTokenMissingOrInvalid"))
            /\ UNCHANGED <<messageID, app, messageIdentifier>>
       ELSE /\ messageID' = AtomicAdd(messageID, 1)
            /\ messageIdentifier' = [messageIdentifier EXCEPT ![r] = messageID']
            /\ app' = [app EXCEPT ![r] = authenticate(req, wired.resolve).app]
            /\ IF ~wired.forward
               THEN Reply(r, 500, errorBody("ErrInternalMisconfigured"))
               ELSE /\ pc' = [pc EXCEPT ![r] = "forward"]
                    /\ UNCHANGED response
    /\ UNCHANGED <<now, forwarded, upstreamFailures, wired, alert, ctxErr,
                   delivery, call>>

\* messageHandler up to the call of forward: the method check, authenticate
\* and ParseMessageRequest read only the request and the read-only app
\* table, so they are one step with the atomic increment that follows them.
\* The id is allocated before the forwarder is looked at.
\* First the handler as it would be allocating the id before the body is
\* parsed.
messageHandlerIdBeforeParse(r, req) ==
    /\ pc[r] = "idle"
    /\ request' = [request EXCEPT ![r] = req]
    /\ IF req.Method # "POST"
       THEN /\ Reply(r, 405, errorBody("ErrMethodNotAllowed"))
            /\ UNCHANGED <<messageID, app, messageIdentifier>>
       ELSE IF ~authenticate(req, wired.resolve).ok
       THEN /\ Reply(r, 403, errorBody("ErrTokenMissingOrInvalid"))
            /\ UNCHANGED <<messageID, app, messageIdentifier>>
       ELSE /\ messageID' = AtomicAdd(messageID, 1)
            /\ messageIdentifier' = [messageIdentifier EXCEPT ![r] = messageID']
            /\ app' = [app EXCEPT ![r] = authenticate(req, wired.resolve).app]
            /\ IF req.ParseErr # ""
               THEN Reply(r, 400, errorBody(req.ParseErr))
               ELSE IF ~wired.forward
               THEN Reply(r, 500, errorBody("ErrInternalMisconfigured"))
               ELSE /\ pc' = [pc EXCEPT ![r] = "forward"]
                    /\ UNCHANGED response
    /\ UNCHANGED <<now, forwarded, upstreamFailures, wired, alert, ctxErr,
                   delivery, call>>

messageHandler(r, req) ==
    /\ pc[r] = "idle"
    /\ request' = [request EXCEPT ![r] = req]
    /\ IF req.Method # "POST"
       THEN /\ Reply(r, 405, errorBody("ErrMethodNotAllowed"))
            /\ UNCHANGED <<messageID, app, messageIdentifier>>
       ELSE IF ~authenticate(req, wired.resolve).ok
       THEN /\ Reply(r, 403, errorBody("ErrTokenMissingOrInvalid"))
            /\ UNCHANGED <<messageID, app, messageIdentifier>>
       ELSE IF req.ParseErr # ""
       THEN /\ Reply(r, 400, errorBody(req.ParseErr))
            /\ app' = [app EXCEPT ![r] = authenticate(req, wired.resolve).app]
            /\ UNCHANGED <<messageID, messageIdentifier>>
       ELSE /\ messageID' = AtomicAdd(messageID, 1)
            /\ messageIdentifier' = [messageIdentifier EXCEPT ![r] = messageID']
            /\ app' = [app EXCEPT ![r] = authenticate(req, wired.resolve).app]
            /\ IF ~wired.forward
               THEN Reply(r, 500, errorBody("ErrInternalMisconfigured"))
               ELSE /\ pc' = [pc EXCEPT ![r] = "forward"]
                    /\ UNCHANGED response
    /\ UNCHANGED <<now, forwarded, upstreamFailures, wired, alert, ctxErr,
                   delivery, call>>

(***************************************************************************)
(* cmd/gotilert/main.go: the closure newForwarder returns, up to the call  *)
(* of PostAlerts.  The alert is built once, from one reading of the clock. *)
(***************************************************************************)
\* The deadline of a context: none, or an instant of the clock.
NoDeadline == [ok |-> FALSE, at |-> 0]
Deadline(t) == [ok |-> TRUE, at |-> t]

\* context.WithCancel(parent): the deadline of the parent, if it has one.
contextWithCancel(parent) == parent

\* context.WithTimeout(parent, timeout) called at instant t: the parent's
\* deadline when that is earlier, else t + timeout.
contextWithTimeout(parent, timeout, t) ==
    IF parent.ok /\ parent.at < t + timeout THEN parent
    ELSE Deadline(t + timeout)

\* withBoundedTimeout as it would be if the timeout always started a fresh
\* deadline
withBoundedTimeoutFresh(parent, timeout, t, later) ==
    IF timeout <= 0 THEN contextWithCancel(parent)
    ELSE Deadline(later + timeout)

\* withBoundedTimeout: the deadline of the context it returns.  time.Until
\* reads the clock at t, context.WithTimeout at `later` >= t.
withBoundedTimeout(parent, timeout, t, later) ==
    IF timeout <= 0 THEN contextWithCancel(parent)
    ELSE IF parent.ok /\ parent.at - t > 0 /\ parent.at - t <= timeout
         THEN contextWithCancel(parent)
    ELSE contextWithTimeout(parent, timeout, later)

\* forwardBuild as it would be if the closure read the process-wide counter
\* instead of the id the handler passed to it
forwardBuildSharedCounter(r) ==
    /\ pc[r] = "forward"
    /\ \E order \in KeyOrders(SeverityMapFor(app[r])) :
          alert' = [alert EXCEPT ![r] =
                       BuildAlert(app[r], request[r].Msg, messageID, order, now)]
    /\ attempt' = [attempt EXCEPT ![r] = 1]
    /\ pc' = [pc EXCEPT ![r] = "attempt"]
    /\ UNCHANGED <<shared, request, app, messageIdentifier, ctxErr, err, backoff,
                   posted, outcomes, sleeps, postErr, response, call>>

forwardBuild(r) ==
    /\ pc[r] = "forward"
    /\ \E order \in KeyOrders(SeverityMapFor(app[r])) :
          alert' = [alert EXCEPT ![r] =
                       BuildAlert(app[r], request[r].Msg, messageIdentifier[r],
                                  order, now)]
    /\ attempt' = [attempt EXCEPT ![r] = 1]
    /\ pc' = [pc EXCEPT ![r] = "attempt"]
    /\ UNCHANGED <<shared, request, app, messageIdentifier, ctxErr, err, backoff,
                   posted, outcomes, sleeps, postErr, response, call>>

(***************************************************************************)
(* internal/alertmanager/client.go: PostAlerts(forwardCtx, {alert}).       *)
(***************************************************************************)
\* The batch json.Marshal encodes for an attempt: the caller's slice.
AttemptBatchRestamped(alerts, t) ==
    [i \in DOMAIN alerts |->
        [alerts[i] EXCEPT !.StartsAt = t, !.EndsAt = t + cfg.Defaults.TTL]]

AttemptBatch(alerts, t) == alerts

\* PostAlerts returns: the forwarder resumes with its result.
Return(r, result) ==
    /\ postErr' = [postErr EXCEPT ![r] = result]
    /\ pc' = [pc EXCEPT ![r] = "returned"]

\* One postAlertsOnce: httpClient.Do answers with `outcome`, unless the
\* context is already done, and then Do fails with the context's error.
postAlertsOnce(r, outcome) ==
    /\ pc[r] = "attempt"
    /\ LET got == IF ctxErr[r] # "nil" THEN TransportFailure({ctxErr[r]})
                  ELSE outcome
           result == postAlertsOnceResult(got)
       IN  /\ posted' = [posted EXCEPT ![r] =
                            Append(@, AttemptBatch(<<alert[r]>>, now))]
           /\ outcomes' = [outcomes EXCEPT ![r] = Append(@, got)]
           /\ err' = [err EXCEPT ![r] = result]
           /\ IF result = NilErr
              THEN Return(r, NilErr)
              ELSE /\ pc' = [pc EXCEPT ![r] = "failed"]
                   /\ UNCHANGED postErr
    /\ UNCHANGED <<shared, request, app, messageIdentifier, alert, ctxErr,
                   attempt, backoff, sleeps, response, call>>

\* fmt.Errorf("%w: %w", ErrDoRequest, ctxErr)
ContextErr(ctxError) == [tags |-> {"ErrDoRequest", ctxError}, code |-> 0]

\* fmt.Errorf("%w: %w", ErrDoRequest, sleepErr), sleepErr wrapping
\* ErrContextDone and ctx.Err()
SleepErr(ctxError) ==
    [tags |-> {"ErrDoRequest", "ErrContextDone", ctxError}, code |-> 0]

\* afterFailedAttempt as it would be without the ctx.Err() check
afterFailedAttemptNoCtxCheck(r) ==
    /\ pc[r] = "failed"
    /\ IF ~shouldRetry(err[r]) \/ attempt[r] = attempts
       THEN /\ Return(r, err[r])
            /\ UNCHANGED <<backoff, sleeps>>
       ELSE /\ backoff' = [backoff EXCEPT ![r] =
                              computeBackoff(attempt[r], client.retryInitial,
                                             client.retryMaxBackoff)]
            /\ sleeps' = [sleeps EXCEPT ![r] = @ + 1]
            /\ pc' = [pc EXCEPT ![r] = "sleep"]
            /\ UNCHANGED postErr
    /\ UNCHANGED <<shared, request, app, messageIdentifier, alert, ctxErr,
                   attempt, err, posted, outcomes, response, call>>

\* afterFailedAttempt as it would be sleeping after every failure but that
\* of the final attempt
afterFailedAttemptSleepsOnPermanent(r) ==
    /\ pc[r] = "failed"
    /\ IF ctxErr[r] # "nil"
       THEN /\ Return(r, ContextErr(ctxErr[r]))
            /\ UNCHANGED <<backoff, sleeps>>
       ELSE IF attempt[r] = attempts
       THEN /\ Return(r, err[r])
            /\ UNCHANGED <<backoff, sleeps>>
       ELSE /\ backoff' = [backoff EXCEPT ![r] =
                              computeBackoff(attempt[r], client.retryInitial,
                                             client.retryMaxBackoff)]
            /\ sleeps' = [sleeps EXCEPT ![r] = @ + 1]
            /\ pc' = [pc EXCEPT ![r] = "sleep"]
            /\ UNCHANGED postErr
    /\ UNCHANGED <<shared, request, app, messageIdentifier, alert, ctxErr,
                   attempt, err, posted, outcomes, response, call>>

\* afterFailedAttempt as it would be without the test of the final attempt
afterFailedAttemptUnbounded(r) ==
    /\ pc[r] = "failed"
    /\ IF ctxErr[r] # "nil"
       THEN /\ Return(r, ContextErr(ctxErr[r]))
            /\ UNCHANGED <<backoff, sleeps>>
       ELSE IF ~shouldRetry(err[r])
       THEN /\ Return(r, err[r])
            /\ UNCHANGED <<backoff, sleeps>>
       ELSE /\ backoff' = [backoff EXCEPT ![r] =
                              computeBackoff(attempt[r], client.retryInitial,
                                             client.retryMaxBackoff)]
            /\ sleeps' = [sleeps EXCEPT ![r] = @ + 1]
            /\ pc' = [pc EXCEPT ![r] = "sleep"]
            /\ UNCHANGED postErr
    /\ UNCHANGED <<shared, request, app, messageIdentifier, alert, ctxErr,
                   attempt, err, posted, outcomes, response, call>>

\* After a failed attempt: the context check, the retry decision and the
\* backoff computation (lines 169-180).
afterFailedAttempt(r) ==
    /\ pc[r] = "failed"
    /\ IF ctxErr[r] # "nil"
       THEN /\ Return(r, ContextErr(ctxErr[r]))
            /\ UNCHANGED <<backoff, sleeps>>
       ELSE IF ~shouldRetry(err[r]) \/ attempt[r] = attempts
       THEN /\ Return(r, err[r])
            /\ UNCHANGED <<backoff, sleeps>>
       ELSE /\ backoff' = [backoff EXCEPT ![r] =
                              computeBackoff(attempt[r], client.retryInitial,
                                             client.retryMaxBackoff)]
            /\ sleeps' = [sleeps EXCEPT ![r] = @ + 1]
            /\ pc' = [pc EXCEPT ![r] = "sleep"]
            /\ UNCHANGED postErr
    /\ UNCHANGED <<shared, request, app, messageIdentifier, alert, ctxErr,
                   attempt, err, posted, outcomes, response, call>>

\* the sleep as it would be with time.Sleep: the timer is waited out whatever
\* the context does
sleepTimerFiredUncancellable(r) ==
    /\ pc[r] = "sleep"
    /\ attempt' = [attempt EXCEPT ![r] = @ + 1]
    /\ pc' = [pc EXCEPT ![r] = "attempt"]
    /\ UNCHANGED <<shared, request, app, messageIdentifier, alert, ctxErr, err,
                   backoff, posted, outcomes, sleeps, postErr, response, call>>

\* sleepWithContext, case <-timer.C: the timer fires before the context is
\* done; the loop goes to its next attempt.
sleepTimerFired(r) ==
    /\ pc[r] = "sleep"
    /\ ctxErr[r] = "nil"
    /\ attempt' = [attempt EXCEPT ![r] = @ + 1]
    /\ pc' = [pc EXCEPT ![r] = "attempt"]
    /\ UNCHANGED <<shared, request, app, messageIdentifier, alert, ctxErr, err,
                   backoff, posted, outcomes, sleeps, postErr, response, call>>

\* sleepWithContext, case <-ctx.Done(): the context is done before the
\* timer fires (the backoff is positive, so the timer is never due when the
\* select starts).
sleepContextDone(r) ==
    /\ pc[r] = "sleep"
    /\ ctxErr[r] # "nil"
    /\ Return(r, SleepErr(ctxErr[r]))
    /\ UNCHANGED <<shared, request, app, messageIdentifier, alert, ctxErr,
                   attempt, err, backoff, posted, outcomes, sleeps, response, call>>

\* the 502 payload as it would be if the forwarder's error were written out
UpstreamFailedBodyEcho(forwardErr) ==
    errorBody(IF "statusError" \in forwardErr.tags
              THEN "alertmanager returned non-2xx status: " \o Itoa(forwardErr.code)
              ELSE "do request")

\* The payload of the 502 reply: fmt.Errorf("%w", ErrUpstreamFailed), whatever
\* error the forwarder returned.
UpstreamFailedBody(forwardErr) == errorBody("ErrUpstreamFailed")

\* forwardReturn as it would be if a failure were counted for every attempt
forwardReturnCountsAttempts(r) ==
    /\ pc[r] = "returned"
    /\ IF postErr[r] # NilErr
       THEN /\ upstreamFailures' =
                  [upstreamFailures EXCEPT ![app[r].Name] = @ + Len(outcomes[r])]
            /\ UNCHANGED forwarded
            /\ Reply(r, 502, UpstreamFailedBody(postErr[r]))
       ELSE /\ forwarded' = [forwarded EXCEPT ![app[r].Name] = @ + 1]
            /\ UNCHANGED upstreamFailures
            /\ Reply(r, 200, MessageResponse(messageIdentifier[r], app[r],
                                             request[r].Msg, now))
    /\ UNCHANGED <<messageID, now, wired, request, app, messageIdentifier, alert, ctxErr,
                   delivery, call>>

\* The forwarder as it would be looking at the context after PostAlerts
\* whatever PostAlerts returned.
forwardReturnChecksContext(r) ==
    /\ pc[r] = "returned"
    /\ IF postErr[r] # NilErr \/ ctxErr[r] # "nil"
       THEN /\ upstreamFailures' = [upstreamFailures EXCEPT ![app[r].Name] = @ + 1]
            /\ UNCHANGED forwarded
            /\ Reply(r, 502, UpstreamFailedBody(postErr[r]))
       ELSE /\ forwarded' = [forwarded EXCEPT ![app[r].Name] = @ + 1]
            /\ UNCHANGED upstreamFailures
            /\ Reply(r, 200, MessageResponse(messageIdentifier[r], app[r],
                                             request[r].Msg, now))
    /\ UNCHANGED <<messageID, now, wired, request, app, messageIdentifier, alert, ctxErr,
                   delivery, call>>

\* The forwarder after PostAlerts, and the handler's reply.
forwardReturn(r) ==
    /\ pc[r] = "returned"
    /\ IF postErr[r] # NilErr
       THEN /\ upstreamFailures' = [upstreamFailures EXCEPT ![app[r].Name] = @ + 1]
            /\ UNCHANGED forwarded
            /\ Reply(r, 502, UpstreamFailedBody(postErr[r]))
       ELSE /\ forwarded' = [forwarded EXCEPT ![app[r].Name] = @ + 1]
            /\ UNCHANGED upstreamFailures
            /\ Reply(r, 200, MessageResponse(messageIdentifier[r], app[r],
                                             request[r].Msg, now))
    /\ UNCHANGED <<messageID, now, wired, request, app, messageIdentifier, alert, ctxErr,
                   delivery, call>>

(***************************************************************************)
(* Environment.                                                            *)
(***************************************************************************)
\* The caller goes away (Canceled) or the delivery timeout of
\* withBoundedTimeout expires (DeadlineExceeded) while the forwarder runs.
\* A request context cancelled before forwardCtx is made gives a forwardCtx
\* that is done before the first attempt, which is this step taken at
\* "attempt".
ContextDone(r, kind) ==
    /\ pc[r] \in {"attempt", "failed", "sleep", "returned"}
    /\ ctxErr[r] = "nil"
    /\ ctxErr' = [ctxErr EXCEPT ![r] = kind]
    /\ UNCHANGED <<shared, pc, request, app, messageIdentifier, alert, delivery,
                   response, call>>

Tick ==
    /\ now < MaxNow
    /\ now' = now + 1
    /\ UNCHANGED <<messageID, forwarded, upstreamFailures, wired, pc, request, app,
                   messageIdentifier, alert, ctxErr, delivery, response, call>>

(***************************************************************************)
(* The server under concurrent requests whose callers stay connected: the  *)
(* handlers interleave at every step; no context is done, so the           *)
(* <-ctx.Done() case of the sleep is never taken here, and the clock       *)
(* stands still (SpecDelivery has the cancellations and the clock).        *)
(***************************************************************************)
Next ==
    \/ \E r \in Requests, req \in ServerRequests : messageHandler(r, req)
    \/ \E r \in Requests : forwardBuild(r)
    \/ \E r \in Requests, outcome \in ServerOutcomes : postAlertsOnce(r, outcome)
    \/ \E r \in Requests : afterFailedAttempt(r)
    \/ \E r \in Requests : sleepTimerFired(r)
    \/ \E r \in Requests : forwardReturn(r)

Spec == Init /\ [][Next]_vars

(***************************************************************************)
(* One delivery followed attempt by attempt, against every kind of         *)
(* upstream answer, with the clock running.                                *)
(***************************************************************************)
NextDelivery ==
    \/ \E req \in DeliveryRequests : messageHandler(1, req)
    \/ forwardBuild(1)
    \/ \E outcome \in DeliveryOutcomes : postAlertsOnce(1, outcome)
    \/ afterFailedAttempt(1)
    \/ sleepTimerFired(1)
    \/ sleepContextDone(1)
    \/ forwardReturn(1)
    \/ \E kind \in {"Canceled", "DeadlineExceeded"} : ContextDone(1, kind)
    \/ Tick

SpecDelivery == Init /\ [][NextDelivery]_vars

\* The same delivery when every exchange returns (httpClient.Do answers or
\* fails), the loop's own code runs on, and a sleep ends: its select takes
\* the timer's case or the context's.
SpecDeliveryFair ==
    /\ Init
    /\ [][NextDelivery]_vars
    /\ WF_vars(\E outcome \in DeliveryOutcomes : postAlertsOnce(1, outcome))
    /\ WF_vars(afterFailedAttempt(1))
    /\ WF_vars(sleepTimerFired(1) \/ sleepContextDone(1))

(***************************************************************************)
(* The same, for a handler assembled by server.New from any Options: the   *)
(* resolver, the forwarder or both can be missing (nil).                   *)
(***************************************************************************)
InitWiring ==
    /\ InitHandlers
    /\ wired \in [resolve : BOOLEAN, forward : BOOLEAN]
    /\ call = NoCall

SpecWiring == InitWiring /\ [][NextDelivery]_vars

(***************************************************************************)
(* Pure functions, evaluated on inputs drawn by the initial state.         *)
(***************************************************************************)
\* Evaluating a pure function touches nothing of the server.
ServerUnchanged ==
    UNCHANGED <<messageID, now, forwarded, upstreamFailures, wired, pc, request,
                app, messageIdentifier, alert, ctxErr, delivery, status, body>>

\* What httpClient.Do can return: a response with any three-digit status
\* (net/http accepts 100..999 in a status line), or a transport error of any
\* combination of shapes.
ClassifyInputs ==
    {Response(code) : code \in 100..999}
        \cup {TransportFailure(shapes) : shapes \in SUBSET TransportShapes}

InitClassify ==
    /\ InitServer
    /\ \E outcome \in ClassifyInputs :
          call = [fn |-> "shouldRetry", arg |-> outcome, err |-> NilErr,
                  res |-> FALSE, done |-> FALSE]

\* The error postAlertsOnce makes of the outcome, and what shouldRetry says.
Classify ==
    /\ call.fn = "shouldRetry"
    /\ ~call.done
    /\ call' = [call EXCEPT !.err = postAlertsOnceResult(call.arg),
                            !.res = shouldRetry(postAlertsOnceResult(call.arg)),
                            !.done = TRUE]
    /\ ServerUnchanged

NextClassify == Classify

SpecClassify == InitClassify /\ [][NextClassify]_vars

\* Retry settings computeBackoff is evaluated with: New's, and others with
\* 0 < initial <= maxBackoff.
BackoffSettings ==
    {<<defaultRetryInitial, defaultRetryMaxBackoff>>,
     <<1, 1>>, <<1, 7>>, <<100, 1600>>, <<250, 1000>>, <<300, 300>>,
     <<defaultRetryInitial, 2 * defaultRetryInitial>>,
     <<defaultRetryMaxBackoff, defaultRetryMaxBackoff>>,
     <<150, 10000>>}

InitBackoff ==
    /\ InitServer
    /\ \E a \in 1..MaxBackoffAttempt, setting \in BackoffSettings :
          call = [fn |-> "computeBackoff",
                  arg |-> [attempt |-> a, initial |-> setting[1],
                           maxBackoff |-> setting[2]],
                  res |-> 0, done |-> FALSE]

Backoff ==
    /\ call.fn = "computeBackoff"
    /\ ~call.done
    /\ call' = [call EXCEPT !.res = computeBackoff(call.arg.attempt,
                                                   call.arg.initial,
                                                   call.arg.maxBackoff),
                            !.done = TRUE]
    /\ ServerUnchanged

NextBackoff == Backoff

SpecBackoff == InitBackoff /\ [][NextBackoff]_vars

\* Severity maps as config validation leaves them: keys >= 0, values one of
\* the three canonical severities.  The test maps are among them.
SeverityKeys == {0, 2, 5, 7}
Severities == {"info", "warning", "critical"}

SeverityMaps ==
    UNION {[keys -> Severities] : keys \in SUBSET SeverityKeys}
        \cup {(5 :> "critical" @@ 10 :> "warning")}

InitSeverity ==
    /\ InitServer
    /\ \E mapping \in SeverityMaps, priority \in 0..MaxPriority :
          \E order \in KeyOrders(mapping) :
             call = [fn |-> "severityForPriority",
                     arg |-> [mapping |-> mapping, priority |-> priority,
                              order |-> order],
                     res |-> "", done |-> FALSE]

Severity ==
    /\ call.fn = "severityForPriority"
    /\ ~call.done
    /\ call' = [call EXCEPT !.res = severityForPriority(call.arg.mapping,
                                                        call.arg.priority,
                                                        call.arg.order),
                            !.done = TRUE]
    /\ ServerUnchanged

NextSeverity == Severity

SpecSeverity == InitSeverity /\ [][NextSeverity]_vars

\* Label maps of the configuration: config validation puts no constraint
\* on label keys, so the computed keys can appear in them.
LabelKeys ==
    {"alertname", "app", "severity", "priority", "gotilert_id", "source", "team"}

DefaultLabelMaps == UNION {[keys -> {"from-defaults"}] : keys \in SUBSET LabelKeys}
AppLabelMaps == UNION {[keys -> {"from-app"}] : keys \in SUBSET LabelKeys}

InitLabels ==
    /\ InitServer
    /\ \E defaultLabels \in DefaultLabelMaps, appLabels \in AppLabelMaps :
          call = [fn |-> "forwarderLabels",
                  arg |-> [defaultLabels |-> defaultLabels,
                           appLabels |-> appLabels,
                           alertName |-> "BackupAlert", appName |-> "backup",
                           severity |-> "warning", priority |-> 7,
                           messageIdentifier |-> 12],
                  res |-> EmptyMap, done |-> FALSE]

Labels ==
    /\ call.fn = "forwarderLabels"
    /\ ~call.done
    /\ call' = [call EXCEPT
                   !.res = forwarderLabels(call.arg.defaultLabels,
                                           call.arg.appLabels, call.arg.alertName,
                                           call.arg.appName, call.arg.severity,
                                           call.arg.priority,
                                           call.arg.messageIdentifier),
                   !.done = TRUE]
    /\ ServerUnchanged

NextLabels == Labels

SpecLabels == InitLabels /\ [][NextLabels]_vars

\* Values the three credential carriers of a request can hold.
HeaderValues == {"", "  ", "TOKEN_A", " TOKEN_B ", "UNKNOWN"}
QueryValues == {"", " ", "TOKEN_A", "TOKEN_B", "UNKNOWN"}
AuthorizationValues ==
    {"", "Bearer TOKEN_A", "bearer TOKEN_B", " BEARER   TOKEN_B ",
     "Bearer UNKNOWN", "Bearer ", "Basic TOKEN_A", "TOKEN_A"}

InitToken ==
    /\ InitServer
    /\ \E header \in HeaderValues, query \in QueryValues,
          authorization \in AuthorizationValues :
          call = [fn |-> "extractToken",
                  arg |-> [header |-> header, query |-> query,
                           authorization |-> authorization],
                  res |-> "", ok |-> FALSE, done |-> FALSE]

\* authenticate on a request with these credentials: the token extracted
\* and whether the app table resolves it.
Token ==
    /\ call.fn = "extractToken"
    /\ ~call.done
    /\ LET token == extractToken(call.arg.header, call.arg.query,
                                 call.arg.authorization)
       IN  call' = [call EXCEPT
                       !.res = token,
                       !.ok = authenticate(Request("POST", token, "", NoMsg), TRUE).ok,
                       !.done = TRUE]
    /\ ServerUnchanged

NextToken == Token

SpecToken == InitToken /\ [][NextToken]_vars

\* Delivery timeouts (alertmanager.timeout of the configuration, which
\* validation keeps >= 0), in ticks.
Timeouts == {0, 1, 2, 3, 5}

InitTimeout ==
    /\ InitServer
    /\ \E parent \in {NoDeadline} \cup {Deadline(d) : d \in 0..MaxDeadline},
          timeout \in Timeouts, t \in 0..MaxNow, elapsed \in {0, 1} :
          call = [fn |-> "withBoundedTimeout",
                  arg |-> [parent |-> parent, timeout |-> timeout, t |-> t,
                           later |-> t + elapsed],
                  res |-> NoDeadline, done |-> FALSE]

Timeout ==
    /\ call.fn = "withBoundedTimeout"
    /\ ~call.done
    /\ call' = [call EXCEPT !.res = withBoundedTimeout(call.arg.parent,
                                                       call.arg.timeout,
                                                       call.arg.t, call.arg.later),
                            !.done = TRUE]
    /\ ServerUnchanged

NextTimeout == Timeout

SpecTimeout == InitTimeout /\ [][NextTimeout]_vars

(***************************************************************************)
(* Outgoing requests of the client: credentials and the readiness probe    *)
(* (internal/alertmanager/client.go, ready.go).                            *)
(***************************************************************************)
\* An http.Header: each name holds the list of its values.
NoHeaders == [name \in {} |-> <<>>]

\* Header.Set: the value replaces whatever the name held.
HeaderSet(headers, name, value) ==
    [n \in DOMAIN headers \cup {name} |->
        IF n = name THEN <<value>> ELSE headers[n]]

\* Header.Add
HeaderAdd(headers, name, value) ==
    [n \in DOMAIN headers \cup {name} |->
        IF n = name
        THEN (IF n \in DOMAIN headers THEN headers[n] ELSE <<>>) \o <<value>>
        ELSE headers[n]]

\* The value of an Authorization header, by scheme; the base64 encoding of
\* user:password, which is injective, is left as the pair.
BearerCredential(token) == [scheme |-> "Bearer", token |-> token]
BasicCredential(username, password) ==
    [scheme |-> "Basic", username |-> username, password |-> password]

Auth(username, password, bearer) ==
    [BasicUsername |-> username, BasicPassword |-> password, BearerToken |-> bearer]

normalizeAuth(auth) ==
    Auth(TrimSpace(auth.BasicUsername), TrimSpace(auth.BasicPassword),
         TrimSpace(auth.BearerToken))

\* applyAuth as it would be if both kinds of credential were added
applyAuthBoth(auth, headers) ==
    LET withBearer == IF auth.BearerToken # ""
                      THEN HeaderAdd(headers, "Authorization",
                                     BearerCredential(auth.BearerToken))
                      ELSE headers
    IN  IF auth.BasicUsername # "" \/ auth.BasicPassword # ""
        THEN HeaderAdd(withBearer, "Authorization",
                       BasicCredential(auth.BasicUsername, auth.BasicPassword))
        ELSE withBearer

\* applyAuth: the headers of the request afterwards
applyAuth(auth, headers) ==
    IF auth.BearerToken # ""
    THEN HeaderSet(headers, "Authorization", BearerCredential(auth.BearerToken))
    ELSE IF auth.BasicUsername # "" \/ auth.BasicPassword # ""
    THEN HeaderSet(headers, "Authorization",
                   BasicCredential(auth.BasicUsername, auth.BasicPassword))
    ELSE headers

\* The request postAlertsOnce hands to httpClient.Do.
postAlertsRequest(auth, alerts) ==
    [method |-> "POST", path |-> "/api/v2/alerts",
     headers |-> applyAuth(auth,
                     HeaderSet(NoHeaders, "Content-Type",
                               "application/json; charset=utf-8")),
     body |-> alerts]

\* The request Ready hands to httpClient.Do.
readyRequest(auth) ==
    [method |-> "GET", path |-> "/-/ready",
     headers |-> applyAuth(auth, NoHeaders), body |-> <<>>]

\* Credentials alertmanager.New can be given.
AuthOptions ==
    {Auth(u, p, b) : u \in {"", " ", "admin", " admin "},
                     p \in {"", "  ", "secret", "secret "},
                     b \in {"", " ", "tok", " tok "}}

InitAuth ==
    /\ InitServer
    /\ \E options \in AuthOptions :
          call = [fn |-> "applyAuth", arg |-> options,
                  post |-> postAlertsRequest(Auth("", "", ""), <<>>),
                  probe |-> readyRequest(Auth("", "", "")), done |-> FALSE]

\* New stores normalizeAuth(opts.Auth); the client then builds a post and a
\* probe.
ApplyAuth ==
    /\ call.fn = "applyAuth"
    /\ ~call.done
    /\ call' = [call EXCEPT
                   !.post = postAlertsRequest(normalizeAuth(call.arg), <<NoAlert>>),
                   !.probe = readyRequest(normalizeAuth(call.arg)),
                   !.done = TRUE]
    /\ ServerUnchanged

NextAuth == ApplyAuth

SpecAuth == InitAuth /\ [][NextAuth]_vars

\* The error of Ready: nil, ErrNotReady with the status, or the wrapped
\* transport error.
NotReadyErr(code) == [tags |-> {"ErrNotReady"}, code |-> code]
ReadyRequestErr(shapes) == [tags |-> {"readyRequest"} \cup shapes, code |-> 0]

\* err.Error(), as far as it is told apart here.
ErrorText(error) ==
    IF "ErrNotReady" \in error.tags
    THEN "alertmanager not ready: status=" \o Itoa(error.code)
    ELSE "alertmanager ready request: transport error"

\* Ready as it would be if every 2xx status counted as ready
ReadyAny2xx(auth, outcome) ==
    [sent |-> <<readyRequest(auth)>>,
     err |-> IF outcome.kind = "error" THEN ReadyRequestErr(outcome.shapes)
             ELSE IF outcome.code < 200 \/ outcome.code >= 300
                  THEN NotReadyErr(outcome.code)
             ELSE NilErr]

\* Client.Ready: the requests it sent and the error it returns, when
\* httpClient.Do answers with `outcome`.
Ready(auth, outcome) ==
    [sent |-> <<readyRequest(auth)>>,
     err |-> IF outcome.kind = "error" THEN ReadyRequestErr(outcome.shapes)
             ELSE IF outcome.code # 200 THEN NotReadyErr(outcome.code)
             ELSE NilErr]

\* readyFunc of buildHTTPServer: (ready, reason)
readyFunc(readyErr) ==
    IF readyErr # NilErr THEN [ok |-> FALSE, reason |-> ErrorText(readyErr)]
    ELSE [ok |-> TRUE, reason |-> ""]

\* What httpClient.Do can answer to the probe; the probe's own timeout shows
\* as DeadlineExceeded.
ReadyOutcomes ==
    {Response(code) : code \in 100..999}
        \cup {TransportFailure({shape}) : shape \in TransportShapes}
        \cup {TransportFailure({})}

InitReady ==
    /\ InitServer
    /\ \E outcome \in ReadyOutcomes :
          call = [fn |-> "Ready", arg |-> outcome, sent |-> <<>>,
                  res |-> [ok |-> FALSE, reason |-> ""], done |-> FALSE]

Probe ==
    /\ call.fn = "Ready"
    /\ ~call.done
    /\ LET result == Ready(normalizeAuth(Auth("", "", " tok ")), call.arg)
       IN  call' = [call EXCEPT !.sent = result.sent,
                                !.res = readyFunc(result.err),
                                !.done = TRUE]
    /\ ServerUnchanged

NextReady == Probe

SpecReady == InitReady /\ [][NextReady]_vars

(***************************************************************************)
(* internal/gotify: ParseMessageRequest.                                   *)
(***************************************************************************)
DefaultPriority == 5

\* mime.ParseMediaType, for header values whose parameters are well formed:
\* the media type is the part before the first ";", trimmed and lowered,
\* and must be a token (here: not empty, no space inside).
ParseMediaType(value) ==
    LET semicolon == IndexOf(value, ";")
        base == IF semicolon = 0 THEN value ELSE SubSeq(value, 1, semicolon - 1)
        mediaType == ToLower(TrimSpace(base))
    IN  IF mediaType = "" \/ IndexOf(mediaType, " ") # 0
        THEN [mediaType |-> "", ok |-> FALSE]
        ELSE [mediaType |-> mediaType, ok |-> TRUE]

\* A request body is the text of a JSON object (its fields decoded: message,
\* title, priority, extras, each possibly missing), the text of a
\* url-encoded form (its values), or a text that is neither.
JSONBody(fields) == [enc |-> "json", fields |-> fields]
FormBody(values) == [enc |-> "form", values |-> values]
GarbageBody == [enc |-> "garbage"]
NoValues == [k \in {} |-> ""]

\* The request as ParseMessageRequest reads it: the Content-Type header
\* ("" when absent), the body, and the values of the URL query.
HTTPRequest(contentType, requestBody, query) ==
    [ContentType |-> contentType, Body |-> requestBody, Query |-> query]

\* What a parse returns, with which decoder ran and whether it read the body.
ParseResult(msg, error, decoder, bodyRead) ==
    [msg |-> msg, err |-> error, decoder |-> decoder, bodyRead |-> bodyRead]

\* validate as it would be without the check of the priority
validateAnyPriority(msg) ==
    IF TrimSpace(msg.Message) = "" THEN [msg |-> NoMsg, err |-> "ErrMessageRequired"]
    ELSE [msg |-> msg, err |-> ""]

validate(msg) ==
    IF TrimSpace(msg.Message) = "" THEN [msg |-> NoMsg, err |-> "ErrMessageRequired"]
    ELSE IF msg.Priority < 0 THEN [msg |-> NoMsg, err |-> "ErrInvalidPriority"]
    ELSE [msg |-> msg, err |-> ""]

\* json.Decoder.Decode into jsonMessagePayload: only the text of a JSON
\* object decodes.
parseJSON(req) ==
    IF req.Body.enc # "json" THEN ParseResult(NoMsg, "decode json", "json", TRUE)
    ELSE LET payload == req.Body.fields
             field(name) == IF name \in DOMAIN payload THEN payload[name] ELSE ""
             priority == IF "priority" \in DOMAIN payload THEN payload["priority"]
                         ELSE DefaultPriority
             extras == IF "extras" \in DOMAIN payload THEN payload["extras"]
                       ELSE NilExtras
             checked == validate(Msg(TrimSpace(field("message")),
                                     TrimSpace(field("title")), priority, extras))
         IN  ParseResult(checked.msg, checked.err, "json", TRUE)

\* Whether request.ParseForm reads the body: only when the request declares
\* application/x-www-form-urlencoded; an absent Content-Type counts as
\* application/octet-stream there.
ParseFormReadsBody(req) ==
    ParseMediaType(req.ContentType).mediaType = "application/x-www-form-urlencoded"

\* The values of the body as url.ParseQuery gives them: the text of a JSON
\* object holds none of the form's keys.
PostFormValues(req) ==
    IF req.Body.enc = "form" THEN req.Body.values ELSE NoValues

\* request.FormValue after ParseForm: the body's value before the query's.
FormValue(req, key) ==
    IF ParseFormReadsBody(req) /\ key \in DOMAIN PostFormValues(req)
    THEN PostFormValues(req)[key]
    ELSE IF key \in DOMAIN req.Query THEN req.Query[key]
    ELSE ""

parseForm(req) ==
    IF ParseFormReadsBody(req) /\ req.Body.enc = "garbage"
    THEN ParseResult(NoMsg, "parse form", "form", TRUE)
    ELSE LET priorityRaw == TrimSpace(FormValue(req, "priority"))
             parsed == Atoi(priorityRaw)
         IN  IF priorityRaw # "" /\ ~parsed.ok
             THEN ParseResult(NoMsg, "ErrInvalidPriority", "form",
                              ParseFormReadsBody(req))
             ELSE LET priority == IF priorityRaw # "" THEN parsed.value
                                  ELSE DefaultPriority
                      checked == validate(Msg(TrimSpace(FormValue(req, "message")),
                                              TrimSpace(FormValue(req, "title")),
                                              priority, NilExtras))
                  IN  ParseResult(checked.msg, checked.err, "form",
                                  ParseFormReadsBody(req))

ParseMessageRequest(req) ==
    LET parsedType == ParseMediaType(req.ContentType)
        mediaType == IF req.ContentType # "" THEN parsedType.mediaType ELSE ""
    IN  IF req.ContentType # "" /\ ~parsedType.ok
        THEN ParseResult(NoMsg, "ErrUnsupportedContentType", "none", FALSE)
        ELSE IF mediaType = "application/json" THEN parseJSON(req)
        ELSE IF mediaType \in {"application/x-www-form-urlencoded", ""}
             THEN parseForm(req)
        ELSE ParseResult(NoMsg, "ErrUnsupportedContentType", "none", FALSE)

\* Content-Type headers, bodies and query values the parser is given.
ContentTypes ==
    {"", "application/json", "application/json; charset=utf-8", "Application/JSON",
     "application/x-www-form-urlencoded",
     "application/x-www-form-urlencoded; charset=UTF-8",
     "text/plain", "multipart/form-data", "; charset=utf-8", "not a type"}

\* A field that is missing, or holds one of the values.
Optional(key, values) == {NoValues} \cup {key :> v : v \in values}

JSONBodies ==
    {JSONBody(message @@ title @@ priority @@ extras) :
        message \in Optional("message", {"hello", "  ", " hi "}),
        title \in Optional("title", {" t "}),
        priority \in Optional("priority", {-1, 0, 7}),
        extras \in Optional("extras", {SampleExtras})}

FormBodies ==
    {FormBody(message @@ title @@ priority) :
        message \in Optional("message", {"hello", "  ", " hi "}),
        title \in Optional("title", {" t "}),
        priority \in Optional("priority", {"", "-1", "0", " 7 ", "abc"})}

Queries ==
    {NoValues, "token" :> "TOKEN_A", "token" :> "TOKEN_A" @@ "message" :> "from query",
     "priority" :> "3"}

InitParse ==
    /\ InitServer
    /\ \E contentType \in ContentTypes,
          requestBody \in JSONBodies \cup FormBodies \cup {GarbageBody},
          query \in Queries :
          call = [fn |-> "ParseMessageRequest",
                  arg |-> HTTPRequest(contentType, requestBody, query),
                  res |-> ParseResult(NoMsg, "", "none", FALSE), done |-> FALSE]

Parse ==
    /\ call.fn = "ParseMessageRequest"
    /\ ~call.done
    /\ call' = [call EXCEPT !.res = ParseMessageRequest(call.arg), !.done = TRUE]
    /\ ServerUnchanged

NextParse == Parse

SpecParse == InitParse /\ [][NextParse]_vars

(***************************************************************************)
(* One delivery of an accepted message against upstream answers that carry *)
(* bodies: short, blank, unreadable, and longer than maxErrorBodyBytes.    *)
(***************************************************************************)
RECURSIVE Repeat(_, _)
Repeat(unit, count) ==
    IF count = 0 THEN ""
    ELSE LET half == Repeat(unit, count \div 2)
         IN  half \o half \o (IF count % 2 = 1 THEN unit ELSE "")

LongBody == "payload too large: " \o Repeat("x", maxErrorBodyBytes)

UpstreamOutcomes ==
    {Response(200), Response(503),
     ResponseWithBody(429, "slow down"),
     ResponseWithBody(500, "  \n"),
     ResponseWithBody(401, " invalid credentials for tenant-7 "),
     ResponseWithBody(413, LongBody),
     ResponseUnreadable(502),
     TransportFailure({"OpError"})}

UpstreamRequests == {Request("POST", "TOKEN_A", "", Msg("disk full", "", 5, NilExtras))}

NextUpstream ==
    \/ \E req \in UpstreamRequests : messageHandler(1, req)
    \/ forwardBuild(1)
    \/ \E outcome \in UpstreamOutcomes : postAlertsOnce(1, outcome)
    \/ afterFailedAttempt(1)
    \/ sleepTimerFired(1)
    \/ sleepContextDone(1)
    \/ forwardReturn(1)
    \/ \E kind \in {"Canceled", "DeadlineExceeded"} : ContextDone(1, kind)

SpecUpstream == Init /\ [][NextUpstream]_vars

(***************************************************************************)
(* pickSummary on its own.  In a text of the model "~" stands for a UTF-8  *)
(* continuation byte and every other character for a byte that starts a    *)
(* character: "a" is a one-byte character, "e~" a two-byte character and   *)
(* "u~~" a three-byte character.                                           *)
(***************************************************************************)
SummaryCharacters == {"a", "e~", "u~~"}

\* Numbers of characters of a message, on both sides of 120 characters and
\* of 120 bytes.
SummaryLengths == {1, 40, 41, 60, 61, 70, 119, 120, 121, 130}

SummaryMessages ==
    {"", "  "}
    \cup {Repeat(unit, count) : unit \in SummaryCharacters, count \in SummaryLengths}
    \cup {" " \o Repeat("a", count) \o " \n" : count \in {119, 120, 121}}

SummaryTitles == {"", "  ", "x", " Disk full "}

InitSummary ==
    /\ InitServer
    /\ \E appName \in AppNames, title \in SummaryTitles, message \in SummaryMessages :
          call = [fn |-> "pickSummary",
                  arg |-> [appName |-> appName, title |-> title, message |-> message],
                  res |-> "", done |-> FALSE]

Summary ==
    /\ call.fn = "pickSummary"
    /\ ~call.done
    /\ call' = [call EXCEPT
                   !.res = pickSummary(call.arg.appName, call.arg.title, call.arg.message),
                   !.done = TRUE]
    /\ ServerUnchanged

NextSummary == Summary

SpecSummary == InitSummary /\ [][NextSummary]_vars

(***************************************************************************)
(* Loading a configuration (internal/config/config.go) and forwarding one  *)
(* message under it.  The configuration has defaults and one app.          *)
(***************************************************************************)
\* canonicalSeverity as it would be keeping the configured spelling.
canonicalSeverityAsWritten(input) == input

canonicalSeverity(input) ==
    LET lowered == ToLower(TrimSpace(input))
    IN  IF lowered \in {"warn", "warning"} THEN "warning"
        ELSE IF lowered \in {"crit", "critical"} THEN "critical"
        ELSE "info"

validateSeverity(input) ==
    IF ToLower(TrimSpace(input)) \in {"info", "warn", "warning", "crit", "critical"}
    THEN ""
    ELSE "ErrInvalidSeverity"

\* The loop over a severity map that both validateDefaults and
\* normalizeSeverityMap run, visiting the keys in `order`: the first key
\* that is negative or holds an invalid severity ends it with an error.
RECURSIVE severityMapLoop(_, _)
severityMapLoop(mapping, order) ==
    IF order = <<>> THEN [err |-> "", mapping |-> mapping]
    ELSE LET priority == Head(order)
         IN  IF priority < 0
             THEN [err |-> "ErrPriorityNegative", mapping |-> mapping]
             ELSE IF validateSeverity(mapping[priority]) # ""
             THEN [err |-> "ErrInvalidSeverity", mapping |-> mapping]
             ELSE severityMapLoop(
                      [mapping EXCEPT ![priority] = canonicalSeverity(mapping[priority])],
                      Tail(order))

normalizeSeverityMap(mapping, order) ==
    IF DOMAIN mapping = {} THEN [err |-> "", mapping |-> mapping]
    ELSE severityMapLoop(mapping, order)

\* validateDefaults without the test of the ttl.
validateDefaultsAnyTTL(defaults, order) ==
    IF DOMAIN defaults.SeverityFromPriority = {}
    THEN [err |-> "ErrDefaultsSeverityMapRequired", defaults |-> defaults]
    ELSE LET named == IF TrimSpace(defaults.AlertName) = ""
                      THEN [defaults EXCEPT !.AlertName = "GotilertNotification"]
                      ELSE defaults
             looped == severityMapLoop(defaults.SeverityFromPriority, order)
             normalized == [named EXCEPT !.SeverityFromPriority = looped.mapping]
         IN  [err |-> looped.err, defaults |-> normalized]

\* validateDefaults without the test of the severity map's size.
validateDefaultsAnyMap(defaults, order) ==
    LET named == IF TrimSpace(defaults.AlertName) = ""
                 THEN [defaults EXCEPT !.AlertName = "GotilertNotification"]
                 ELSE defaults
        looped == severityMapLoop(defaults.SeverityFromPriority, order)
        normalized == [named EXCEPT !.SeverityFromPriority = looped.mapping]
    IN  IF looped.err # "" THEN [err |-> looped.err, defaults |-> normalized]
        ELSE IF defaults.TTL <= 0
             THEN [err |-> "ErrDefaultsTTLNonPositive", defaults |-> normalized]
        ELSE [err |-> "", defaults |-> normalized]

validateDefaults(defaults, order) ==
    IF DOMAIN defaults.SeverityFromPriority = {}
    THEN [err |-> "ErrDefaultsSeverityMapRequired", defaults |-> defaults]
    ELSE LET named == IF TrimSpace(defaults.AlertName) = ""
                      THEN [defaults EXCEPT !.AlertName = "GotilertNotification"]
                      ELSE defaults
             looped == severityMapLoop(defaults.SeverityFromPriority, order)
             normalized == [named EXCEPT !.SeverityFromPriority = looped.mapping]
         IN  IF looped.err # "" THEN [err |-> looped.err, defaults |-> normalized]
             ELSE IF defaults.TTL <= 0
                  THEN [err |-> "ErrDefaultsTTLNonPositive", defaults |-> normalized]
             ELSE [err |-> "", defaults |-> normalized]

\* validateApps for the one app of the configuration, under its token.
validateApps(configApps, token, order) ==
    LET appConfig == configApps[token]
        blankName == IF TrimSpace(appConfig.AlertName) = ""
                     THEN [appConfig EXCEPT !.AlertName = ""]
                     ELSE appConfig
        normalized == normalizeSeverityMap(appConfig.SeverityFromPriority, order)
    IN  IF TrimSpace(token) = ""
        THEN [err |-> "ErrAppsEmptyTokenKey", apps |-> configApps]
        ELSE IF TrimSpace(appConfig.AppName) = ""
        THEN [err |-> "ErrAppsAppNameRequired", apps |-> configApps]
        ELSE IF normalized.err # ""
        THEN [err |-> normalized.err, apps |-> configApps]
        ELSE [err |-> "",
              apps |-> token :> [blankName EXCEPT
                                    !.SeverityFromPriority = normalized.mapping]]

\* Validate, from validateDefaults on: the server, logging and alertmanager
\* sections of the configurations considered are valid.
Validate(config, defaultsOrder, appsOrder) ==
    LET defaultsResult == validateDefaults(config.Defaults, defaultsOrder)
        appsResult == validateApps(config.Apps, "TOKEN_A", appsOrder)
    IN  IF defaultsResult.err # ""
        THEN [err |-> defaultsResult.err, cfg |-> config]
        ELSE IF appsResult.err # ""
        THEN [err |-> appsResult.err, cfg |-> config]
        ELSE [err |-> "",
              cfg |-> [Defaults |-> defaultsResult.defaults, Apps |-> appsResult.apps]]

\* The configurations a YAML file can hold.
ConfigSeverities == {"info", " Crit ", "bogus"}

ConfigDefaultSeverityMaps ==
    UNION {[keys -> ConfigSeverities] : keys \in SUBSET {0, 2}}
    \cup {(-1) :> "info" @@ 2 :> "warning"}

ConfigAppSeverityMaps ==
    {EmptyMap, 4 :> "warning", 1 :> "critical" @@ 4 :> "WARN", 3 :> "bogus"}

ConfigTTLs == {-1, 0, 1, 3}

ConfigAlertNames == {"", "DiskAlert"}

ConfigPriorities == {0, 1, 3, 5}

Configs ==
    {[Defaults |->
          [AlertName |-> alertName, TTL |-> ttl, SeverityFromPriority |-> defaultMap,
           Labels |-> ("source" :> "gotilert")],
      Apps |->
          ("TOKEN_A" :>
              [AppName |-> "truenas", AlertName |-> "  ", Labels |-> EmptyMap,
               SeverityFromPriority |-> appMap])] :
        alertName \in ConfigAlertNames, ttl \in ConfigTTLs,
        defaultMap \in ConfigDefaultSeverityMaps, appMap \in ConfigAppSeverityMaps}

NoConfig == [Defaults |-> [AlertName |-> "", TTL |-> 0, SeverityFromPriority |-> EmptyMap,
                           Labels |-> EmptyMap],
             Apps |-> EmptyMap]

InitConfig ==
    /\ InitServer
    /\ \E config \in Configs :
          call = [fn |-> "LoadFile", arg |-> config,
                  res |-> [err |-> "", cfg |-> NoConfig], done |-> FALSE,
                  built |-> FALSE, priority |-> 0, at |-> 0, alert |-> NoAlert]

\* config.LoadFile at start-up: the file's content is validated.
LoadFile ==
    /\ call.fn = "LoadFile"
    /\ ~call.done
    /\ \E defaultsOrder \in KeyOrders(call.arg.Defaults.SeverityFromPriority),
          appsOrder \in KeyOrders(call.arg.Apps["TOKEN_A"].SeverityFromPriority) :
          call' = [call EXCEPT !.res = Validate(call.arg, defaultsOrder, appsOrder),
                               !.done = TRUE]
    /\ ServerUnchanged

\* The process started from the loaded configuration forwards a message of
\* the app: the forwarder's closure builds the alert at the instant `now`.
ForwardLoaded ==
    /\ call.fn = "LoadFile"
    /\ call.done
    /\ call.res.err = ""
    /\ ~call.built
    /\ LET loaded == call.res.cfg
           application == newResolveAppFunc(loaded)["TOKEN_A"]
           severityMap == IF DOMAIN application.SeverityFromPriority # {}
                          THEN application.SeverityFromPriority
                          ELSE loaded.Defaults.SeverityFromPriority
       IN  \E priority \in ConfigPriorities, order \in KeyOrders(severityMap) :
              call' = [call EXCEPT
                         !.built = TRUE,
                         !.priority = priority,
                         !.at = now,
                         !.alert = newForwarder(loaded.Defaults, application,
                                                Msg("disk full", "", priority, NilExtras),
                                                1, order, now)]
    /\ ServerUnchanged

NextConfig == LoadFile \/ ForwardLoaded \/ Tick

SpecConfig == InitConfig /\ [][NextConfig]_vars

(***************************************************************************)
(* One delivery with durations, in milliseconds: the forwarder bounds the  *)
(* context with the configured timeout, every exchange takes some time up  *)
(* to the http.Client's timeout, every backoff takes its duration, and the *)
(* context's deadline ends whichever of them it falls in.  The inbound     *)
(* request's context has no deadline of its own.                           *)
(***************************************************************************)
defaultHTTPTimeout == 5000

\* The Timeout New gives the http.Client for opts.Timeout.
httpClientTimeout(timeout) == IF timeout = 0 THEN defaultHTTPTimeout ELSE timeout

\* alertmanager.timeout of the configuration, which validation keeps >= 0.
ConfiguredTimeouts == {0, 300, 1000, 2000, 5000, 8000}

\* How long an exchange that is answered takes, for the client's timeout.
ExchangeDurations(limit) == {d \in {100, 700, limit - 100} : d > 0 /\ d < limit}

InitBlocking ==
    /\ InitServer
    /\ \E timeout \in ConfiguredTimeouts :
          call = [fn |-> "PostAlerts", timeout |-> timeout, clock |-> 0,
                  deadline |-> withBoundedTimeout(NoDeadline, timeout, 0, 0),
                  attempt |-> 1, phase |-> "attempt", exchanges |-> 0, sleeps |-> 0,
                  sleepUntil |-> 0, err |-> NilErr]

\* The context's deadline falls at or before the instant t.
DeadlineBy(deadline, t) == deadline.ok /\ deadline.at <= t

\* One turn of the loop of PostAlerts up to its return or its sleep: the
\* exchange is answered with `code` after `duration`, or runs into the
\* client's timeout, or into the context's deadline.
TimedExchange ==
    /\ call.fn = "PostAlerts"
    /\ call.phase = "attempt"
    /\ LET limit == httpClientTimeout(call.timeout)
       IN  \E duration \in ExchangeDurations(limit) \cup {limit}, code \in {200, 400, 429, 503} :
              LET finish == call.clock + duration
                  byDeadline == DeadlineBy(call.deadline, finish)
                  result ==
                      IF byDeadline THEN ContextErr("DeadlineExceeded")
                      ELSE IF duration = limit
                           THEN DoRequestErr({"netTimeout", "DeadlineExceeded"})
                      ELSE postAlertsOnceResult(Response(code))
                  returns == \/ result = NilErr
                             \/ byDeadline
                             \/ ~shouldRetry(result)
                             \/ call.attempt = attempts
              IN  call' = [call EXCEPT
                             !.clock = IF byDeadline THEN call.deadline.at ELSE finish,
                             !.exchanges = @ + 1,
                             !.err = result,
                             !.phase = IF returns THEN "returned" ELSE "sleep",
                             !.sleepUntil =
                                 IF returns THEN @
                                 ELSE finish + computeBackoff(call.attempt,
                                                              client.retryInitial,
                                                              client.retryMaxBackoff)]
    /\ ServerUnchanged

\* sleepWithContext: the timer fires, or the context's deadline comes first.
TimedSleep ==
    /\ call.fn = "PostAlerts"
    /\ call.phase = "sleep"
    /\ IF DeadlineBy(call.deadline, call.sleepUntil)
       THEN call' = [call EXCEPT !.clock = call.deadline.at,
                                 !.err = SleepErr("DeadlineExceeded"),
                                 !.phase = "returned"]
       ELSE call' = [call EXCEPT !.clock = call.sleepUntil,
                                 !.sleeps = @ + 1,
                                 !.attempt = @ + 1,
                                 !.phase = "attempt"]
    /\ ServerUnchanged

NextBlocking == TimedExchange \/ TimedSleep

SpecBlocking == InitBlocking /\ [][NextBlocking]_vars

(***************************************************************************)
(* runHTTPServer: the listener task, the wait for a termination signal and *)
(* the shutdown with its grace period.  Durations are in seconds; the      *)
(* clock counts from the start of the shutdown.                            *)
(***************************************************************************)
\* The requests the listener accepts in one run.
MaxInFlight == 2
MaxElapsed == 11

defaultShutdownTimeout == 10

pickDuration(value, fallback) == IF value = 0 THEN fallback ELSE value

\* server.shutdownTimeout of the configuration, which validation keeps >= 0.
ShutdownTimeouts == {0, 1, 3}

\* server.Shutdown as it would be handing ctx to srv.Shutdown as it is.
ShutdownContextBackground(ctx, timeout, t) == ctx

\* server.Shutdown: the context srv.Shutdown waits under.
ShutdownContext(ctx, timeout, t) == contextWithTimeout(ctx, timeout, t)

InitShutdown ==
    /\ InitServer
    /\ \E timeout \in ShutdownTimeouts :
          call = [fn |-> "runHTTPServer",
                  shutdownTimeout |-> pickDuration(timeout, defaultShutdownTimeout),
                  phase |-> "serving", inflight |-> 0, served |-> 0, signal |-> "", listenErr |-> "",
                  clock |-> 0, deadline |-> NoDeadline, via |-> "", result |-> ""]

\* The listener accepts a connection and its request starts.
Accept ==
    /\ call.fn = "runHTTPServer"
    /\ call.phase = "serving"
    /\ call.listenErr = ""
    /\ call.inflight + call.served < MaxInFlight
    /\ call' = [call EXCEPT !.inflight = @ + 1]
    /\ ServerUnchanged

\* A request in flight is answered.
Finish ==
    /\ call.fn = "runHTTPServer"
    /\ call.phase # "returned"
    /\ call.inflight > 0
    /\ call' = [call EXCEPT !.inflight = @ - 1, !.served = @ + 1]
    /\ ServerUnchanged

\* SIGINT or SIGTERM arrives on signalChan.
Signal ==
    /\ call.fn = "runHTTPServer"
    /\ call.phase = "serving"
    /\ call.signal = ""
    /\ \E sig \in {"SIGINT", "SIGTERM"} : call' = [call EXCEPT !.signal = sig]
    /\ ServerUnchanged

\* ListenAndServe returns on its own (the address cannot be bound, accept
\* fails) and its error goes to errorChan.
ListenerEnds ==
    /\ call.fn = "runHTTPServer"
    /\ call.phase = "serving"
    /\ call.listenErr = ""
    /\ call' = [call EXCEPT !.listenErr = "listen and serve: listen tcp"]
    /\ ServerUnchanged

\* The select takes the signal: server.Shutdown starts, the listener closes
\* and ListenAndServe returns http.ErrServerClosed.
SelectSignal ==
    /\ call.fn = "runHTTPServer"
    /\ call.phase = "serving"
    /\ call.signal # ""
    /\ call' = [call EXCEPT
                   !.phase = "shutdown",
                   !.via = "signal",
                   !.deadline = ShutdownContext(NoDeadline, call.shutdownTimeout,
                                                call.clock),
                   !.listenErr = IF @ = "" THEN "ErrServerClosed" ELSE @]
    /\ ServerUnchanged

\* The select takes the listener's error.
SelectListener ==
    /\ call.fn = "runHTTPServer"
    /\ call.phase = "serving"
    /\ call.listenErr # ""
    /\ call' = [call EXCEPT
                   !.phase = "returned",
                   !.via = "listener",
                   !.result = IF call.listenErr = "ErrServerClosed" THEN "nil"
                              ELSE "http server error"]
    /\ ServerUnchanged

\* srv.Shutdown finds no request in flight and returns nil.
ShutdownIdle ==
    /\ call.fn = "runHTTPServer"
    /\ call.phase = "shutdown"
    /\ call.inflight = 0
    /\ call' = [call EXCEPT !.phase = "returned", !.result = "nil"]
    /\ ServerUnchanged

\* The shutdown context's deadline passes: srv.Shutdown returns its error.
ShutdownDeadlineExceeded ==
    /\ call.fn = "runHTTPServer"
    /\ call.phase = "shutdown"
    /\ DeadlineBy(call.deadline, call.clock)
    /\ call' = [call EXCEPT !.phase = "returned", !.result = "shutdown http server"]
    /\ ServerUnchanged

\* A second passes during the shutdown.
SecondPasses ==
    /\ call.fn = "runHTTPServer"
    /\ call.phase = "shutdown"
    /\ call.clock < MaxElapsed
    /\ ~DeadlineBy(call.deadline, call.clock)
    /\ call' = [call EXCEPT !.clock = @ + 1]
    /\ ServerUnchanged

NextShutdown ==
    \/ Accept
    \/ Finish
    \/ Signal
    \/ ListenerEnds
    \/ SelectSignal
    \/ SelectListener
    \/ ShutdownIdle
    \/ ShutdownDeadlineExceeded
    \/ SecondPasses

\* The run loop's goroutine is scheduled and time passes; nothing makes a
\* request in flight finish, a signal arrive or the listener end.
SpecShutdown ==
    /\ InitShutdown
    /\ [][NextShutdown]_vars
    /\ WF_vars(SelectSignal \/ SelectListener)
    /\ WF_vars(ShutdownIdle)
    /\ WF_vars(ShutdownDeadlineExceeded)
    /\ WF_vars(SecondPasses)

(***************************************************************************)
(* The maps of the process as Go holds them: a map value is a reference,   *)
(* and the heap gives every reference its contents.  The configuration's   *)
(* maps, the copies newResolveAppFunc and newForwarder take at startup and *)
(* the label map of every request are references into one heap; the        *)
(* requests interleave between their writes.                               *)
(***************************************************************************)
\* The references of the configuration's own maps.
ConfigRefs ==
    [DefaultsLabels |-> 1, DefaultsSeverity |-> 2,
     AppLabels |-> ("TOKEN_A" :> 3 @@ "TOKEN_B" :> 4),
     AppSeverity |-> ("TOKEN_A" :> 5 @@ "TOKEN_B" :> 6)]

\* newForwarder's captures: defaultLabels is a copy, defaultSeverityMap the
\* configuration's own map.
ForwarderRefs == [defaultLabels |-> 7, defaultSeverityMap |-> ConfigRefs.DefaultsSeverity]

\* The table newResolveAppFunc builds: an identity holds copies of its
\* label map and of its severity map.
TableRefs ==
    [token \in DOMAIN cfg.Apps |->
        [Name |-> apps[token].Name,
         ID |-> apps[token].ID,
         AlertName |-> apps[token].AlertName,
         Labels |-> IF token = "TOKEN_A" THEN 8 ELSE 9,
         SeverityFromPriority |-> IF token = "TOKEN_A" THEN 10 ELSE 11]]

\* The heap when startup is over.
StartupHeap ==
    [ref \in 1..11 |->
        CASE ref = ConfigRefs.DefaultsLabels -> cfg.Defaults.Labels
          [] ref = ConfigRefs.DefaultsSeverity -> cfg.Defaults.SeverityFromPriority
          [] ref = 3 -> cfg.Apps["TOKEN_A"].Labels
          [] ref = 4 -> cfg.Apps["TOKEN_B"].Labels
          [] ref = 5 -> cfg.Apps["TOKEN_A"].SeverityFromPriority
          [] ref = 6 -> cfg.Apps["TOKEN_B"].SeverityFromPriority
          [] ref = ForwarderRefs.defaultLabels -> copyLabels(cfg.Defaults.Labels)
          [] ref = 8 -> copyLabels(cfg.Apps["TOKEN_A"].Labels)
          [] ref = 9 -> copyLabels(cfg.Apps["TOKEN_B"].Labels)
          [] ref = 10 -> copySeverityMap(cfg.Apps["TOKEN_A"].SeverityFromPriority)
          [] OTHER -> copySeverityMap(cfg.Apps["TOKEN_B"].SeverityFromPriority)]

\* The priorities of the concurrent messages.
SharedPriorities == {0, 4, 5}

\* copyLabels as it would be returning its argument
copyLabelsSameMap(heap, input) == [heap |-> heap, ref |-> input]

\* copyLabels on references: make allocates a map, maps.Copy fills it.
copyLabelsRef(heap, input) ==
    LET out == Cardinality(DOMAIN heap) + 1
    IN  [heap |-> [ref \in DOMAIN heap \cup {out} |->
                      IF ref = out THEN copyLabels(heap[input]) ELSE heap[ref]],
         ref |-> out]

NoWork == [pc |-> "idle", token |-> "", priority |-> 0, id |-> 0, labels |-> 0,
           posted |-> EmptyMap]

InitShared ==
    /\ InitServer
    /\ call = [fn |-> "forward", heap |-> StartupHeap, messageID |-> 0,
               work |-> [r \in Requests |-> NoWork]]

\* The handler resolves the token and takes an id; the forwarder's closure
\* begins: labels := copyLabels(defaultLabels).
SharedBegin(r, token, priority) ==
    /\ call.fn = "forward"
    /\ call.work[r].pc = "idle"
    /\ LET copied == copyLabelsRef(call.heap, ForwarderRefs.defaultLabels)
       IN  call' = [call EXCEPT
                       !.heap = copied.heap,
                       !.messageID = @ + 1,
                       !.work[r] = [pc |-> "merge", token |-> token,
                                    priority |-> priority,
                                    id |-> call.messageID + 1,
                                    labels |-> copied.ref,
                                    posted |-> EmptyMap]]
    /\ ServerUnchanged

\* mergeStringMap(labels, app.Labels)
SharedMerge(r) ==
    /\ call.fn = "forward"
    /\ call.work[r].pc = "merge"
    /\ LET work == call.work[r]
           identity == TableRefs[work.token]
       IN  call' = [call EXCEPT
                       !.heap[work.labels] =
                           mergeStringMap(@, call.heap[identity.Labels]),
                       !.work[r].pc = "assign"]
    /\ ServerUnchanged

\* The five assignments of the computed labels, the severity read from the
\* map the closure chose.
SharedAssign(r) ==
    /\ call.fn = "forward"
    /\ call.work[r].pc = "assign"
    /\ LET work == call.work[r]
           identity == TableRefs[work.token]
           severityMap ==
               IF DOMAIN call.heap[identity.SeverityFromPriority] # {}
               THEN call.heap[identity.SeverityFromPriority]
               ELSE call.heap[ForwarderRefs.defaultSeverityMap]
           alertName == IF TrimSpace(identity.AlertName) # ""
                        THEN TrimSpace(identity.AlertName)
                        ELSE cfg.Defaults.AlertName
       IN  \E order \in KeyOrders(severityMap) :
              call' = [call EXCEPT
                  !.heap[work.labels] =
                      SetKey(SetKey(SetKey(SetKey(SetKey(@,
                          "alertname", alertName),
                          "app", identity.Name),
                          "severity",
                              severityForPriority(severityMap, work.priority, order)),
                          "priority", Itoa(work.priority)),
                          "gotilert_id", FormatUint(work.id)),
                  !.work[r].pc = "post"]
    /\ ServerUnchanged

\* postAlertsOnce marshals the alert: the labels sent are the contents of
\* the request's map at that moment.
SharedPost(r) ==
    /\ call.fn = "forward"
    /\ call.work[r].pc = "post"
    /\ call' = [call EXCEPT !.work[r].posted = call.heap[call.work[r].labels],
                            !.work[r].pc = "done"]
    /\ ServerUnchanged

NextShared ==
    \/ \E r \in Requests, token \in DOMAIN cfg.Apps, priority \in SharedPriorities :
          SharedBegin(r, token, priority)
    \/ \E r \in Requests : SharedMerge(r)
    \/ \E r \in Requests : SharedAssign(r)
    \/ \E r \in Requests : SharedPost(r)

SpecShared == InitShared /\ [][NextShared]_vars

(***************************************************************************)
(* Properties.                                                             *)
(***************************************************************************)
\* The request passed authentication and validation.
Accepted(r) ==
    \/ pc[r] \in {"forward", "attempt", "failed", "sleep", "returned"}
    \/ pc[r] = "done" /\ status[r] \in {200, 502}

\* PostAlerts has returned for the request's message.
Returned(r) ==
    \/ pc[r] = "returned"
    \/ pc[r] = "done" /\ status[r] \in {200, 502}

Is2xx(outcome) ==
    outcome.kind = "response" /\ outcome.code >= 200 /\ outcome.code <= 299

\* The delivery client's classification as the design states it.
RetryableOutcome(outcome) ==
    \/ outcome.kind = "response"
       /\ (outcome.code = 429 \/ (outcome.code >= 500 /\ outcome.code <= 599))
    \/ outcome.kind = "error"
       /\ (outcome.shapes = {"netTimeout"} \/ outcome.shapes = {"OpError"})

PermanentOutcome(outcome) == ~Is2xx(outcome) /\ ~RetryableOutcome(outcome)

\* C1: any two accepted requests, however their handlers interleave, hold
\* two different forwarding ids, and every id handed out is one of the
\* values 1..messageID the counter has gone through, each handed out once.
C1_DistinctForwardingIds ==
    /\ \A r1, r2 \in Requests :
          r1 # r2 /\ Accepted(r1) /\ Accepted(r2)
              => messageIdentifier[r1] # messageIdentifier[r2]
    /\ \A r \in Requests :
          Accepted(r) => messageIdentifier[r] >= 1 /\ messageIdentifier[r] <= messageID
    /\ Cardinality({r \in Requests : Accepted(r)}) = messageID

C1_Witness ==
    \E r1, r2 \in Requests :
        /\ r1 # r2
        /\ pc[r1] = "sleep"
        /\ pc[r2] = "done" /\ status[r2] = 200
        /\ messageIdentifier[r1] > messageIdentifier[r2]

\* C2: every batch a delivery hands to the HTTP client, first attempt and
\* retries alike, is the one alert built for the message, with the
\* forwarding-id label of the id allocated for it and the validity window
\* stamped when it was built; the retries allocate no further id.
C2_OneAlertIdentityPerMessage ==
    \A r \in Requests :
        /\ \A i \in DOMAIN posted[r] :
              /\ Len(posted[r][i]) = 1
              /\ posted[r][i][1] = alert[r]
              /\ posted[r][i][1].Labels = posted[r][1][1].Labels
              /\ posted[r][i][1].Labels["gotilert_id"] = FormatUint(messageIdentifier[r])
              /\ posted[r][i][1].StartsAt = posted[r][1][1].StartsAt
              /\ posted[r][i][1].EndsAt = posted[r][1][1].EndsAt
        /\ posted[r] # <<>> => messageID = 1 /\ messageIdentifier[r] = 1

C2_Witness ==
    \E r \in Requests :
        /\ Len(posted[r]) = 3
        /\ now > alert[r].StartsAt
        /\ pc[r] = "returned"

\* C3: a PostAlerts call never makes more than N exchanges, N the configured
\* maximum of attempts, and has made at least one when it returns.
C3_ExchangesBetweenOneAndN ==
    \A r \in Requests :
        /\ Len(outcomes[r]) <= defaultRetryMaxAttempts
        /\ Returned(r) => Len(outcomes[r]) >= 1

C3_Witness ==
    \E r \in Requests :
        /\ Returned(r)
        /\ Len(outcomes[r]) = defaultRetryMaxAttempts
        /\ ctxErr[r] # "nil"

\* C4: a PostAlerts call whose context was never done stops only at a 2xx
\* answer, at a permanent failure or at attempt N: with retryable failures
\* on attempts 1..k-1 and a 2xx on attempt k <= N it has made exactly k
\* exchanges when it returns, and it returns success; 500, 500, 200 gives
\* three exchanges and success.
C4_RetryUntilSuccess ==
    \A r \in Requests :
        Returned(r) /\ ctxErr[r] = "nil" =>
            LET k == Len(outcomes[r])
            IN  /\ k >= 1 /\ k <= defaultRetryMaxAttempts
                /\ \A j \in 1..(k - 1) : RetryableOutcome(outcomes[r][j])
                /\ Is2xx(outcomes[r][k]) <=> postErr[r] = NilErr
                /\ RetryableOutcome(outcomes[r][k]) => k = defaultRetryMaxAttempts

C4_Witness ==
    \E r \in Requests :
        /\ Returned(r)
        /\ ctxErr[r] = "nil"
        /\ outcomes[r] = <<Response(500), Response(500), Response(200)>>
        /\ postErr[r] = NilErr

\* C5 as stated: a permanent failure ends the exchanges, and a 400 on the
\* first attempt gives one attempt and an ErrUpstreamNon2xx failure.
C5_Original ==
    \A r \in Requests :
        /\ \A j \in DOMAIN outcomes[r] :
              PermanentOutcome(outcomes[r][j]) => j = Len(outcomes[r])
        /\ Returned(r) /\ outcomes[r][1] = Response(400) =>
              /\ Len(outcomes[r]) = 1
              /\ "ErrUpstreamNon2xx" \in postErr[r].tags

\* C5: a permanent failure ends the exchanges: no attempt follows it.  A
\* 400 on the first attempt gives exactly one attempt and a failure, which
\* is the ErrUpstreamNon2xx error with status 400 when the caller's context
\* is not done, and the context's error when the context was done by the
\* time the attempt returned.
C5_PermanentFailureStops ==
    \A r \in Requests :
        /\ \A j \in DOMAIN outcomes[r] :
              PermanentOutcome(outcomes[r][j]) => j = Len(outcomes[r])
        /\ Returned(r) /\ outcomes[r][1] = Response(400) =>
              /\ Len(outcomes[r]) = 1
              /\ postErr[r] # NilErr
              /\ IF ctxErr[r] = "nil"
                 THEN postErr[r] = UpstreamNon2xxErr(400)
                 ELSE postErr[r] \in {UpstreamNon2xxErr(400), ContextErr(ctxErr[r])}

C5_Witness ==
    \E r \in Requests :
        /\ pc[r] = "done"
        /\ status[r] = 502
        /\ outcomes[r] = <<Response(400)>>
        /\ postErr[r] = UpstreamNon2xxErr(400)

\* C6 as stated: a non-2xx status is retried exactly when it is 429 or in
\* 500..599.
C6_StatusRetryableIff429Or5xx ==
    call.done /\ call.arg.kind = "response" /\ ~Is2xx(call.arg) =>
        (call.res <=>
            (call.arg.code = 429 \/ (call.arg.code >= 500 /\ call.arg.code <= 599)))

PermanentTLSShapes ==
    {"UnknownAuthorityError", "HostnameError", "CertificateInvalidError",
     "SystemRootsError", "RecordHeaderError"}

NothingAfterReturn(r) ==
    Returned(r) =>
        /\ Returned(r)'
        /\ outcomes'[r] = outcomes[r]
        /\ posted'[r] = posted[r]
        /\ sleeps'[r] = sleeps[r]
        /\ postErr'[r] = postErr[r]

\* C8: when the context is done after a failed attempt, the next step of
\* PostAlerts is to return the context's error, without an exchange or a
\* sleep, whatever the attempt's error and however many attempts remain;
\* nothing follows the return.
C8_ContextDoneAfterFailureAborts ==
    [][\A r \in Requests :
          /\ pc[r] = "failed" /\ ctxErr[r] # "nil" /\ pc'[r] # "failed" =>
                /\ pc'[r] = "returned"
                /\ postErr'[r] = ContextErr(ctxErr[r])
                /\ outcomes'[r] = outcomes[r]
                /\ posted'[r] = posted[r]
                /\ sleeps'[r] = sleeps[r]
          /\ NothingAfterReturn(r)]_vars

C8_Witness ==
    \E r \in Requests :
        /\ pc[r] = "returned"
        /\ outcomes[r] = <<Response(503)>>
        /\ postErr[r] = ContextErr("DeadlineExceeded")
        /\ sleeps[r] = 0

\* C9: when the context is done during a backoff sleep, the timer no longer
\* counts: the next step of PostAlerts is to return the cancellation error
\* of the sleep, and no attempt is started.
C9_CancelledSleepAborts ==
    [][\A r \in Requests :
          /\ pc[r] = "sleep" /\ ctxErr[r] # "nil" /\ pc'[r] # "sleep" =>
                /\ pc'[r] = "returned"
                /\ postErr'[r] = SleepErr(ctxErr[r])
                /\ attempt'[r] = attempt[r]
                /\ outcomes'[r] = outcomes[r]
          /\ Returned(r) => Returned(r)' /\ attempt'[r] = attempt[r]
                            /\ outcomes'[r] = outcomes[r]]_vars

C9_Witness ==
    \E r \in Requests :
        /\ pc[r] = "returned"
        /\ postErr[r] = SleepErr("Canceled")
        /\ Len(outcomes[r]) = 2
        /\ attempt[r] = 2

Min(a, b) == IF a <= b THEN a ELSE b

\* The backoff as the design states it: the initial value, then twice the
\* previous one, capped.
RECURSIVE CappedDoubling(_, _, _)
CappedDoubling(a, initial, maxBackoff) ==
    IF a <= 1 THEN initial
    ELSE Min(2 * CappedDoubling(a - 1, initial, maxBackoff), maxBackoff)

\* C10: computeBackoff(a) is the initial value for a = 1 and twice the
\* backoff of a - 1, capped at the maximum, for a > 1; it never exceeds the
\* maximum and never decreases with a; with New's settings it is 200 ms,
\* 400 ms, 800 ms and then 1 s.
C10_BackoffDoublesUpToCap ==
    call.done =>
        LET a == call.arg.attempt
            initial == call.arg.initial
            maxBackoff == call.arg.maxBackoff
        IN  /\ call.res = CappedDoubling(a, initial, maxBackoff)
            /\ call.res <= maxBackoff
            /\ a > 1 => call.res >= CappedDoubling(a - 1, initial, maxBackoff)
            /\ initial = defaultRetryInitial /\ maxBackoff = defaultRetryMaxBackoff =>
                  call.res = CASE a = 1 -> 200 [] a = 2 -> 400 [] a = 3 -> 800
                               [] OTHER -> 1000

C10_Witness ==
    /\ call.done
    /\ call.arg.initial = defaultRetryInitial
    /\ call.arg.maxBackoff = defaultRetryMaxBackoff
    /\ call.arg.attempt = 4
    /\ call.res = defaultRetryMaxBackoff


\* The severity the design states for a map and a priority.
ExpectedSeverity(mapping, priority) ==
    LET keys == DOMAIN mapping
        lower == {k \in keys : k <= priority}
    IN  IF priority \in keys THEN mapping[priority]
        ELSE IF lower # {}
             THEN mapping[CHOOSE k \in lower : \A other \in lower : other <= k]
        ELSE IF keys # {}
             THEN mapping[CHOOSE k \in keys : \A other \in keys : k <= other]
        ELSE "info"

\* C11: severityForPriority(M, p) is M[p] when p is a key, else the value
\* of the greatest key <= p when there is one, else the value of the
\* smallest key, and "info" for the empty map; the result is one of info,
\* warning, critical and is the same for every order in which the keys of
\* the map are visited.
C11_SeverityForPriority ==
    call.done /\ call.fn = "severityForPriority" =>
        /\ call.res = ExpectedSeverity(call.arg.mapping, call.arg.priority)
        /\ call.res \in Severities
        /\ \A order \in KeyOrders(call.arg.mapping) :
              severityForPriority(call.arg.mapping, call.arg.priority, order)
                  = call.res

C11_Witness ==
    /\ call.done
    /\ call.fn = "severityForPriority"
    /\ call.arg.mapping = (0 :> "info" @@ 2 :> "warning" @@ 5 :> "critical")
    /\ call.arg.priority = 3
    /\ call.arg.order = <<5, 0, 2>>
    /\ call.res = "warning"


ComputedKeys == {"alertname", "app", "severity", "priority", "gotilert_id"}

\* C12: in the labels of an alert every computed key holds its computed
\* value, whatever the default labels and the per-app labels give for it;
\* every other key holds the per-app value when the per-app labels have the
\* key and the default value otherwise, and no other key appears.
C12_LabelPrecedence ==
    call.done /\ call.fn = "forwarderLabels" =>
        LET defaultLabels == call.arg.defaultLabels
            appLabels == call.arg.appLabels
            labels == call.res
        IN  /\ labels["alertname"] = call.arg.alertName
            /\ labels["app"] = call.arg.appName
            /\ labels["severity"] = call.arg.severity
            /\ labels["priority"] = "7"
            /\ labels["gotilert_id"] = "12"
            /\ DOMAIN labels =
                  DOMAIN defaultLabels \cup DOMAIN appLabels \cup ComputedKeys
            /\ \A key \in DOMAIN labels \ ComputedKeys :
                  labels[key] = IF key \in DOMAIN appLabels THEN appLabels[key]
                                ELSE defaultLabels[key]

C12_Witness ==
    /\ call.done
    /\ call.fn = "forwarderLabels"
    /\ DOMAIN call.arg.defaultLabels = LabelKeys
    /\ DOMAIN call.arg.appLabels = {"severity", "gotilert_id", "source"}
    /\ call.res["source"] = "from-app"
    /\ call.res["team"] = "from-defaults"
    /\ call.res["severity"] = "warning"


\* C13: every alert handed to the delivery client carries the labels
\* alertname, app, severity, priority and gotilert_id, and gotilert_id is
\* the decimal string of the id allocated for the request's message.
C13_AlertsCarryComputedLabels ==
    \A r \in Requests :
        \A i \in DOMAIN posted[r] :
            LET labels == posted[r][i][1].Labels
            IN  /\ ComputedKeys \subseteq DOMAIN labels
                /\ labels["gotilert_id"] = FormatUint(messageIdentifier[r])
                /\ DecimalValue(labels["gotilert_id"]) = messageIdentifier[r]
                /\ messageIdentifier[r] >= 1

C13_Witness ==
    \E r1, r2 \in Requests :
        /\ posted[r1] # <<>> /\ posted[r2] # <<>>
        /\ app[r1].Name = "truenas"
        /\ "gotilert_id" \in DOMAIN app[r1].Labels
        /\ posted[r1][1][1].Labels["gotilert_id"] = "1"
        /\ posted[r2][1][1].Labels["gotilert_id"] = "2"


\* The token an Authorization header carries as a bearer credential.
BearerToken(authorization) == extractToken("", "", authorization)

\* C14: the token of a request is the trimmed X-Gotify-Key header when that
\* is not empty, else the trimmed token query parameter when that is not
\* empty, else the bearer token of the Authorization header; a source of
\* lower precedence has no influence once a higher one is not empty, also
\* when the higher one holds a token the app table does not know, and the
\* request is then not authenticated.
C14_TokenPrecedence ==
    call.done /\ call.fn = "extractToken" =>
        LET header == TrimSpace(call.arg.header)
            query == TrimSpace(call.arg.query)
        IN  /\ header # "" => call.res = header
            /\ header = "" /\ query # "" => call.res = query
            /\ header = "" /\ query = "" =>
                  call.res = BearerToken(call.arg.authorization)
            /\ call.arg.authorization = "bearer TOKEN_B" /\ header = "" /\ query = ""
                  => call.res = "TOKEN_B"
            /\ header # "" =>
                  \A q \in QueryValues, a \in AuthorizationValues :
                      extractToken(call.arg.header, q, a) = call.res
            /\ header = "" /\ query # "" =>
                  \A a \in AuthorizationValues :
                      extractToken(call.arg.header, call.arg.query, a) = call.res
            /\ call.ok <=> call.res \in DOMAIN apps
            /\ header = "UNKNOWN" => ~call.ok
            /\ header = "" /\ query = "UNKNOWN" => ~call.ok

C14_Witness ==
    /\ call.done
    /\ call.fn = "extractToken"
    /\ call.arg = [header |-> "UNKNOWN", query |-> "TOKEN_A",
                   authorization |-> "bearer TOKEN_B"]
    /\ call.res = "UNKNOWN"
    /\ ~call.ok


\* The request carries no token the app table knows.
Unauthenticated(req) == req.Token = "" \/ req.Token \notin DOMAIN cfg.Apps

\* C15: a POST request whose token is empty or is not a key of the app
\* table is answered 403, and nothing is done for it: no id is allocated,
\* the forwarder is not entered, no alert is built or handed to the HTTP
\* client, and no per-app counter moves.
C15_UnauthenticatedIsForbidden ==
    \A r \in Requests :
        pc[r] # "idle" /\ request[r].Method = "POST" /\ Unauthenticated(request[r])
            => /\ pc[r] = "done"
               /\ status[r] = 403
               /\ body[r] = errorBody("ErrTokenMissingOrInvalid")
               /\ messageIdentifier[r] = 0
               /\ alert[r] = NoAlert
               /\ posted[r] = <<>>
               /\ outcomes[r] = <<>>
               /\ \A a \in AppNames : forwarded[a] = 0 /\ upstreamFailures[a] = 0

C15_Witness ==
    \E r \in Requests :
        /\ request[r] = Request("POST", "UNKNOWN", "", Msg("hello", "", 5, NilExtras))
        /\ status[r] = 403
        /\ now > 0


\* The status the stage order authentication, parsing, wiring check,
\* delivery gives a POST request.
ExpectedStatus(req, forwardWired, result) ==
    IF Unauthenticated(req) THEN 403
    ELSE IF req.ParseErr # "" THEN 400
    ELSE IF ~forwardWired THEN 500
    ELSE IF result # NilErr THEN 502
    ELSE 200

C17_MissingCollaboratorIs500 ==
    \A r \in Requests :
        /\ ~wired.resolve \/ ~wired.forward
        /\ pc[r] = "done"
        /\ request[r].Method = "POST"
        /\ ~Unauthenticated(request[r])
        /\ request[r].ParseErr = ""
        => status[r] = 500


\* C18: the reply to a failed delivery is status 502 with the one fixed
\* payload of ErrUpstreamFailed, whatever the upstream answered (status
\* code, body) or whatever transport or context error ended the delivery:
\* nothing of the failure is in the reply.
C18_FailureReplyIsGeneric ==
    \A r \in Requests :
        /\ status[r] = 502 => body[r] = errorBody("ErrUpstreamFailed")
        /\ pc[r] = "done" /\ outcomes[r] # <<>> /\ postErr[r] # NilErr =>
              status[r] = 502

C18_Witness ==
    \E r \in Requests :
        /\ status[r] = 502
        /\ postErr[r] = UpstreamNon2xxErrBody(401, "invalid credentials for tenant-7")
        /\ body[r] = errorBody("ErrUpstreamFailed")


\* The forwarder has run to its end for the request, for app a, with the
\* given reply.
Completed(r, a, code) ==
    pc[r] = "done" /\ status[r] = code /\ app[r].Name = a

\* C19: for every app the forwarded counter is the number of forwarder
\* invocations for the app that ended in success and the upstream-failure
\* counter the number that ended in failure, so each invocation moved one
\* counter by one, whatever the number of attempts it made, and the two
\* counters add up to the completed invocations.
C19_OneCounterPerInvocation ==
    \A a \in AppNames :
        /\ forwarded[a] = Cardinality({r \in Requests : Completed(r, a, 200)})
        /\ upstreamFailures[a] =
              Cardinality({r \in Requests : Completed(r, a, 502)})
        /\ forwarded[a] + upstreamFailures[a] =
              Cardinality({r \in Requests :
                              Completed(r, a, 200) \/ Completed(r, a, 502)})

C19_Witness ==
    \E r1, r2 \in Requests :
        /\ Completed(r1, "truenas", 502) /\ Len(outcomes[r1]) = 3
        /\ Completed(r2, "truenas", 200) /\ Len(outcomes[r2]) = 2
        /\ forwarded["truenas"] = 1
        /\ upstreamFailures["truenas"] = 1


\* C20: the context the delivery client runs under never has a deadline
\* later than the inbound request's: with no timeout configured it has the
\* inbound deadline; with a timeout T > 0 its deadline is the earlier of the
\* inbound deadline and T after the instant the timeout is started, and is
\* the inbound deadline itself, unchanged, when that is the earlier one.
C20_DeadlineNeverWidened ==
    call.done /\ call.fn = "withBoundedTimeout" =>
        LET parent == call.arg.parent
            timeout == call.arg.timeout
            fresh == call.arg.later + timeout
        IN  /\ parent.ok => call.res.ok /\ call.res.at <= parent.at
            /\ timeout <= 0 => call.res = parent
            /\ timeout > 0 /\ ~parent.ok => call.res = Deadline(fresh)
            /\ timeout > 0 /\ parent.ok =>
                  call.res = Deadline(Min(parent.at, fresh))
            /\ timeout > 0 /\ parent.ok /\ parent.at <= fresh =>
                  call.res = parent

C20_Witness ==
    /\ call.done
    /\ call.fn = "withBoundedTimeout"
    /\ call.arg.parent = Deadline(4)
    /\ call.arg.timeout = 3
    /\ call.arg.t = 1
    /\ call.arg.later = 2
    /\ call.res = Deadline(4)


\* C21: the readiness probe sends one request, a GET to /-/ready, and no
\* second one; it reports ready exactly when the answer is a response with
\* status 200, and reports not ready with a non-empty reason for every
\* other status, the other 2xx included, and for every transport failure.
C21_ReadyIffStatus200 ==
    call.done /\ call.fn = "Ready" =>
        /\ Len(call.sent) = 1
        /\ call.sent[1].method = "GET"
        /\ call.sent[1].path = "/-/ready"
        /\ call.res.ok <=> (call.arg.kind = "response" /\ call.arg.code = 200)
        /\ ~call.res.ok => call.res.reason # ""

C21_Witness ==
    /\ call.done
    /\ call.fn = "Ready"
    /\ call.arg = Response(204)
    /\ ~call.res.ok
    /\ call.res.reason = "alertmanager not ready: status=204"

\* The Authorization values a request carries.
Credentials(req) ==
    IF "Authorization" \in DOMAIN req.headers THEN req.headers["Authorization"]
    ELSE <<>>

\* The credentials the configured Auth calls for.
ExpectedCredentials(options) ==
    LET bearer == TrimSpace(options.BearerToken)
        username == TrimSpace(options.BasicUsername)
        password == TrimSpace(options.BasicPassword)
    IN  IF bearer # "" THEN <<BearerCredential(bearer)>>
        ELSE IF username # "" \/ password # ""
             THEN <<BasicCredential(username, password)>>
        ELSE <<>>

\* C22: the alert post and the readiness probe carry the same credentials,
\* at most one: the bearer credential when the trimmed bearer token is not
\* empty, else the basic credentials when the trimmed username or password
\* is not empty, else no Authorization header at all.
C22_AtMostOneCredential ==
    call.done /\ call.fn = "applyAuth" =>
        /\ Len(Credentials(call.post)) <= 1
        /\ Credentials(call.post) = ExpectedCredentials(call.arg)
        /\ Credentials(call.probe) = ExpectedCredentials(call.arg)
        /\ ExpectedCredentials(call.arg) = <<>> =>
              /\ "Authorization" \notin DOMAIN call.post.headers
              /\ "Authorization" \notin DOMAIN call.probe.headers

C22_Witness ==
    /\ call.done
    /\ call.fn = "applyAuth"
    /\ call.arg = Auth(" admin ", "secret ", " tok ")
    /\ Credentials(call.post) = <<BearerCredential("tok")>>
    /\ Credentials(call.probe) = <<BearerCredential("tok")>>


\* Content-Type values that declare JSON, and that declare a form.
JSONTypes == {"application/json", "application/json; charset=utf-8", "Application/JSON"}
FormTypes ==
    {"application/x-www-form-urlencoded",
     "application/x-www-form-urlencoded; charset=UTF-8"}

\* C23 as stated: a declared JSON type has the body decoded as JSON; a
\* declared form type and an absent type have it decoded as a form, so that
\* a request without Content-Type is parsed as the same request declared
\* form-encoded; any other or unparseable type is rejected as unsupported
\* and its body is not decoded.
C23_DecoderByContentType ==
    call.done /\ call.fn = "ParseMessageRequest" =>
        LET declared == call.arg.ContentType
        IN  /\ declared \in JSONTypes =>
                  call.res.decoder = "json" /\ call.res.bodyRead
            /\ declared \in FormTypes \cup {""} =>
                  call.res.decoder = "form" /\ call.res.bodyRead
            /\ declared = "" =>
                  call.res = ParseMessageRequest(
                                 [call.arg EXCEPT !.ContentType =
                                     "application/x-www-form-urlencoded"])
            /\ declared \notin JSONTypes \cup FormTypes \cup {""} =>
                  /\ call.res.err = "ErrUnsupportedContentType"
                  /\ call.res.decoder = "none"
                  /\ ~call.res.bodyRead

\* The request declares an encoding and its body is a text of that
\* encoding, with a priority that is a number when it is given.
WellFormed(req) ==
    \/ req.ContentType \in JSONTypes /\ req.Body.enc = "json"
    \/ /\ req.ContentType \in FormTypes
       /\ req.Body.enc = "form"
       /\ "priority" \in DOMAIN req.Body.values =>
             req.Body.values["priority"] \in {"", "-1", "0", " 7 "}

\* The fields of a well-formed request: for a form the body's value comes
\* before the query's.
Fields(req) ==
    IF req.Body.enc = "json" THEN req.Body.fields
    ELSE req.Body.values @@ req.Query

MessageField(req) ==
    IF "message" \in DOMAIN Fields(req) THEN TrimSpace(Fields(req)["message"])
    ELSE ""

PriorityField(req) ==
    IF "priority" \notin DOMAIN Fields(req) THEN 5
    ELSE IF req.Body.enc = "json" THEN Fields(req)["priority"]
    ELSE CASE Fields(req)["priority"] = "" -> 5
           [] Fields(req)["priority"] = "-1" -> -1
           [] Fields(req)["priority"] = "0" -> 0
           [] Fields(req)["priority"] = " 7 " -> 7
           [] Fields(req)["priority"] = "3" -> 3

\* C24: a well-formed JSON or form request is accepted exactly when its
\* message is not empty after trimming and its priority, 5 when none is
\* given, is >= 0; without a message the failure is ErrMessageRequired,
\* with a message and a negative priority it is ErrInvalidPriority; and
\* whatever the request, an accepted message is trimmed, not empty and has
\* a priority >= 0.
C24_ValidationOfMessageAndPriority ==
    call.done /\ call.fn = "ParseMessageRequest" =>
        /\ call.res.err = "" =>
              /\ call.res.msg.Message # ""
              /\ call.res.msg.Message = TrimSpace(call.res.msg.Message)
              /\ call.res.msg.Priority >= 0
        /\ WellFormed(call.arg) =>
              LET message == MessageField(call.arg)
                  priority == PriorityField(call.arg)
              IN  /\ call.res.err = "" <=> (message # "" /\ priority >= 0)
                  /\ message = "" => call.res.err = "ErrMessageRequired"
                  /\ message # "" /\ priority < 0 =>
                        call.res.err = "ErrInvalidPriority"
                  /\ call.res.err = "" =>
                        /\ call.res.msg.Message = message
                        /\ call.res.msg.Priority = priority

C24_Witness ==
    /\ call.done
    /\ call.fn = "ParseMessageRequest"
    /\ call.arg.ContentType = "application/x-www-form-urlencoded"
    /\ call.arg.Body = FormBody("message" :> " hi ")
    /\ call.arg.Query = NoValues
    /\ call.res.err = ""
    /\ call.res.msg.Message = "hi"
    /\ call.res.msg.Priority = 5


\* The positions of a text at which a character starts.
CharacterStarts(s) == {i \in 1..Len(s) : SubSeq(s, i, i) # "~"}

\* The number of characters of a text.
CharacterCount(s) == Cardinality(CharacterStarts(s))

\* The first count characters of a text, whole.
FirstCharacters(s, count) ==
    IF CharacterCount(s) <= count THEN s
    ELSE LET next == CHOOSE i \in CharacterStarts(s) :
                        Cardinality({j \in CharacterStarts(s) : j < i}) = count
         IN  SubSeq(s, 1, next - 1)

\* C25 as stated: the summary is the trimmed title when that is not empty,
\* whatever the message; otherwise the trimmed message, whole when it has at
\* most 120 characters and its first 120 characters followed by the marker
\* when it has more; otherwise the app name.
C25_SummaryByCharacters ==
    call.done /\ call.fn = "pickSummary" =>
        LET trimmedTitle == TrimSpace(call.arg.title)
            trimmedMessage == TrimSpace(call.arg.message)
        IN  call.res =
              IF trimmedTitle # "" THEN trimmedTitle
              ELSE IF trimmedMessage = "" THEN call.arg.appName
              ELSE IF CharacterCount(trimmedMessage) <= 120 THEN trimmedMessage
              ELSE FirstCharacters(trimmedMessage, 120) \o "..."


\* The configuration was loaded and a message was forwarded under it.
Forwarded == call.fn = "LoadFile" /\ call.done /\ call.res.err = "" /\ call.built

LoadedDefaultMap == call.res.cfg.Defaults.SeverityFromPriority

LoadedAppMap == call.res.cfg.Apps["TOKEN_A"].SeverityFromPriority

\* C26: a configuration that loads keeps its ttl T and has T > 0; the alert
\* built under it at the instant t0 has startsAt = t0 and endsAt = t0 + T,
\* hence endsAt > startsAt.
C26_AlertIntervalIsTTL ==
    /\ call.fn = "LoadFile" /\ call.done /\ call.res.err = "" =>
          /\ call.res.cfg.Defaults.TTL = call.arg.Defaults.TTL
          /\ call.res.cfg.Defaults.TTL > 0
    /\ Forwarded =>
          /\ call.alert.StartsAt = call.at
          /\ call.alert.EndsAt = call.at + call.arg.Defaults.TTL
          /\ call.alert.EndsAt > call.alert.StartsAt

C26_Witness ==
    /\ Forwarded
    /\ call.arg.Defaults.TTL = 3
    /\ call.at = 2
    /\ call.alert.StartsAt = 2
    /\ call.alert.EndsAt = 5

\* C29: when the app's severity map is not empty the severity of the alert
\* is the one that map alone gives for the priority, and it is the same
\* under every other default map; when the app's map is empty it is the one
\* the default map gives.
C29_AppSeverityMapReplacesDefault ==
    Forwarded =>
        LET application == newResolveAppFunc(call.res.cfg)["TOKEN_A"]
            severity == call.alert.Labels["severity"]
        IN  IF DOMAIN LoadedAppMap # {}
            THEN /\ severity = ExpectedSeverity(LoadedAppMap, call.priority)
                 /\ \A otherMap \in ConfigDefaultSeverityMaps,
                       order \in KeyOrders(LoadedAppMap) :
                       newForwarder(
                           [call.res.cfg.Defaults EXCEPT !.SeverityFromPriority = otherMap],
                           application, Msg("disk full", "", call.priority, NilExtras),
                           1, order, call.at).Labels["severity"] = severity
            ELSE severity = ExpectedSeverity(LoadedDefaultMap, call.priority)

C29_Witness ==
    /\ Forwarded
    /\ LoadedAppMap = (1 :> "critical" @@ 4 :> "warning")
    /\ LoadedDefaultMap = (0 :> "info" @@ 2 :> "critical")
    /\ call.priority = 0
    /\ call.alert.Labels["severity"] = "critical"

\* C30: a configuration whose default severity map is empty does not load,
\* it fails with ErrDefaultsSeverityMapRequired; so the default map of a
\* loaded configuration is not empty, and an alert whose severity is
\* resolved against the default map gets one of that map's values.
C30_EmptyDefaultSeverityMapRejected ==
    /\ call.fn = "LoadFile" /\ call.done =>
          /\ DOMAIN call.arg.Defaults.SeverityFromPriority = {} =>
                call.res.err = "ErrDefaultsSeverityMapRequired"
          /\ call.res.err = "" => DOMAIN LoadedDefaultMap # {}
    /\ Forwarded /\ DOMAIN LoadedAppMap = {} =>
          \E key \in DOMAIN LoadedDefaultMap :
              call.alert.Labels["severity"] = LoadedDefaultMap[key]

C30_Witness ==
    /\ call.fn = "LoadFile"
    /\ call.done
    /\ DOMAIN call.arg.Defaults.SeverityFromPriority = {}
    /\ call.arg.Defaults.TTL = 3
    /\ call.res.err = "ErrDefaultsSeverityMapRequired"


\* The last attempt of the delivery received a response outside 200..299.
LastResponseNon2xx(r) ==
    /\ outcomes[r] # <<>>
    /\ outcomes[r][Len(outcomes[r])].kind = "response"
    /\ ~Is2xx(outcomes[r][Len(outcomes[r])])

\* The error the design states for a response outside 200..299: its status
\* code, and the first 64 KiB of its body, trimmed, or the status text when
\* that is empty.
ExpectedStatusError(outcome) ==
    LET text == IF "body" \in DOMAIN outcome THEN outcome.body ELSE ""
        excerpt == TrimSpace(SubSeq(text, 1, Min(Len(text), 64 * 1024)))
    IN  [tags |-> {"ErrUpstreamNon2xx", "statusError"},
         code |-> outcome.code,
         body |-> IF excerpt = "" THEN Status(outcome.code) ELSE excerpt]

IsCancellation(error) ==
    "Canceled" \in error.tags \/ "DeadlineExceeded" \in error.tags

IsUpstreamStatusFailure(error) ==
    "ErrUpstreamNon2xx" \in error.tags \/ "statusError" \in error.tags

\* PostAlerts returns while the caller's context is done, after a failed
\* attempt or during a backoff sleep.
EndsOnContext(r) ==
    /\ pc[r] \in {"failed", "sleep"}
    /\ ctxErr[r] # "nil"
    /\ pc'[r] = "returned"

C31_SeverityLabelIsCanonical ==
    /\ call.fn = "LoadFile" /\ call.done /\ call.res.err = "" =>
          /\ \A key \in DOMAIN LoadedDefaultMap :
                LoadedDefaultMap[key] \in {"info", "warning", "critical"}
          /\ \A key \in DOMAIN LoadedAppMap :
                LoadedAppMap[key] \in {"info", "warning", "critical"}
    /\ Forwarded =>
          call.alert.Labels["severity"] \in {"info", "warning", "critical"}

C31_Witness ==
    /\ Forwarded
    /\ call.arg.Defaults.SeverityFromPriority = (0 :> "info" @@ 2 :> " Crit ")
    /\ call.arg.Apps["TOKEN_A"].SeverityFromPriority = (1 :> "critical" @@ 4 :> "WARN")
    /\ call.priority = 5
    /\ call.alert.Labels["severity"] = "warning"


\* C32 as stated: a delivery returns within max attempts times the
\* worst-case backoff plus the timeout of one attempt, counted from the
\* instant the forwarder starts it.
C32_BlockingBound ==
    call.fn = "PostAlerts" /\ call.phase = "returned" =>
        call.clock <= attempts * client.retryMaxBackoff
                      + httpClientTimeout(call.timeout)


\* C33: once a termination signal has arrived runHTTPServer eventually
\* returns, and once the listener task has ended it eventually returns,
\* signal or no signal; a return through the shutdown comes at most the
\* grace period after the shutdown began, with nil when no request was left
\* in flight and with an error at the end of the grace period otherwise; a
\* return through the listener's end is an error unless the listener ended
\* with http.ErrServerClosed.
C33_RunLoopReturns ==
    /\ (call.signal # "" ~> call.phase = "returned")
    /\ (call.listenErr # "" ~> call.phase = "returned")
    /\ [](call.phase = "returned" /\ call.via = "signal" =>
            /\ call.clock <= call.shutdownTimeout
            /\ \/ call.result = "nil" /\ call.inflight = 0
               \/ call.result = "shutdown http server"
                  /\ call.clock = call.shutdownTimeout)
    /\ [](call.phase = "returned" /\ call.via = "listener" =>
            (call.result = "nil" <=> call.listenErr = "ErrServerClosed"))

C33_Witness ==
    /\ call.fn = "runHTTPServer"
    /\ call.phase = "returned"
    /\ call.via = "signal"
    /\ call.signal = "SIGTERM"
    /\ call.shutdownTimeout = 10
    /\ call.inflight = 2
    /\ call.clock = 10
    /\ call.result = "shutdown http server"


\* The request has been read and is a POST with a known token and a valid
\* message.
PassedValidation(r) ==
    /\ pc[r] # "idle"
    /\ request[r].Method = "POST"
    /\ ~Unauthenticated(request[r])
    /\ request[r].ParseErr = ""

\* The handler of request r takes the request in this step.
Handles(r) == pc[r] = "idle" /\ pc'[r] # "idle"

\* C34: the counter is the number of requests that passed authentication
\* and validation, whatever became of their deliveries; the step in which
\* a handler takes a request adds one to the counter when the request
\* passes both and leaves it as it is when the request is rejected (405,
\* 403, 400); no other step changes the counter.
C34_CounterCountsAcceptedRequests ==
    /\ [](messageID = Cardinality({r \in Requests : PassedValidation(r)}))
    /\ [][\A r \in Requests :
            Handles(r) =>
                IF PassedValidation(r)'
                THEN messageID' = messageID + 1
                ELSE messageID' = messageID /\ status'[r] \in {405, 403, 400}]_vars
    /\ [][messageID' # messageID => \E r \in Requests : Handles(r)]_vars

C34_Witness ==
    \E r1, r2 \in Requests :
        /\ pc[r1] = "done" /\ status[r1] = 400
        /\ pc[r2] = "done" /\ status[r2] = 502
        /\ messageID = 1


\* C35 as stated: a call that has returned after k exchanges has slept at
\* most k-1 times, and no call returns out of a sleep.
C35_Original ==
    /\ [](\A r \in Requests : Returned(r) => sleeps[r] <= Len(outcomes[r]) - 1)
    /\ [][\A r \in Requests : pc[r] = "sleep" => pc'[r] # "returned"]_vars

\* C35: a backoff sleep is begun only after a retryable failure of an
\* attempt that is not the final one, so a permanent failure and the final
\* attempt's failure are returned with no sleep; a call returns out of a
\* sleep only when the caller's context is done during it, with the
\* context's error; a call that has returned after k exchanges has begun
\* k-1 sleeps and finished them all, or, when it returned out of a sleep,
\* has begun k sleeps and finished k-1.
C35_SleepOnlyBetweenAttempts ==
    /\ [](\A r \in Requests :
            /\ pc[r] = "sleep" =>
                  /\ Len(outcomes[r]) < defaultRetryMaxAttempts
                  /\ sleeps[r] = Len(outcomes[r])
                  /\ RetryableOutcome(outcomes[r][Len(outcomes[r])])
            /\ Returned(r) =>
                  IF postErr[r] = SleepErr(ctxErr[r])
                  THEN sleeps[r] = Len(outcomes[r])
                  ELSE sleeps[r] = Len(outcomes[r]) - 1)
    /\ [][\A r \in Requests :
            pc[r] = "sleep" /\ pc'[r] = "returned" =>
                ctxErr[r] # "nil" /\ postErr'[r] = SleepErr(ctxErr[r])]_vars

C35_Witness ==
    \E r \in Requests :
        /\ Returned(r)
        /\ ctxErr[r] = "nil"
        /\ outcomes[r] = <<Response(503), Response(429), Response(400)>>
        /\ sleeps[r] = 2
        /\ postErr[r] = UpstreamNon2xxErr(400)


\* C36: for every request answered 200 the id of the acknowledgment is the
\* number the gotilert_id label of the alert delivered for that request
\* spells, the label of no other request's alert spells it, and the
\* message, title and priority of the acknowledgment are those of the
\* validated message.
C36_AcknowledgmentMatchesAlert ==
    \A r \in Requests :
        pc[r] = "done" /\ status[r] = 200 =>
            /\ posted[r] # <<>>
            /\ Is2xx(outcomes[r][Len(outcomes[r])])
            /\ LET delivered == posted[r][Len(posted[r])][1]
               IN  /\ delivered.Labels["gotilert_id"] = FormatUint(body[r].id)
                   /\ DecimalValue(delivered.Labels["gotilert_id"]) = body[r].id
            /\ \A other \in Requests \ {r} :
                  \A i \in DOMAIN posted[other] :
                      DecimalValue(posted[other][i][1].Labels["gotilert_id"]) # body[r].id
            /\ body[r].message = request[r].Msg.Message
            /\ body[r].title = request[r].Msg.Title
            /\ body[r].priority = request[r].Msg.Priority

C36_Witness ==
    \E r1, r2 \in Requests :
        /\ pc[r1] = "done" /\ status[r1] = 200
        /\ pc[r2] = "done" /\ status[r2] = 200
        /\ body[r1].id = 2 /\ body[r2].id = 1
        /\ body[r1].title = "nas" /\ body[r1].priority = 7
        /\ posted[r1][1][1].Labels["gotilert_id"] = "2"


\* The last exchange of the delivery was answered with a status in 200..299.
LastResponse2xx(r) ==
    outcomes[r] # <<>> /\ Is2xx(outcomes[r][Len(outcomes[r])])

\* C37: an exchange answered 2xx makes PostAlerts return success in the
\* same step, and the success stands whatever the caller's context is then
\* or becomes: the request is answered 200 and counted as forwarded, never
\* as an upstream failure, also when the context is cancelled or expired.
C37_SuccessNotOvertakenByCancellation ==
    /\ [](\A r \in Requests :
            Returned(r) /\ LastResponse2xx(r) =>
                /\ postErr[r] = NilErr
                /\ pc[r] = "done" =>
                      /\ status[r] = 200
                      /\ forwarded[app[r].Name] = 1
                      /\ upstreamFailures[app[r].Name] = 0)
    /\ [][\A r \in Requests :
            pc[r] = "attempt" /\ LastResponse2xx(r)' =>
                pc'[r] = "returned" /\ postErr'[r] = NilErr]_vars

C37_Witness ==
    \E r \in Requests :
        /\ pc[r] = "done"
        /\ status[r] = 200
        /\ ctxErr[r] = "DeadlineExceeded"
        /\ outcomes[r] = <<Response(503), Response(204)>>


\* The shapes of the caller's context ending.
ContextShapes == {"Canceled", "DeadlineExceeded"}

\* The shapes the classifier retries when nothing before them matches.
RetriedShapes == {"netTimeout", "OpError"}

\* C38: an error of several shapes is classified by the first class it
\* matches, in the order context ending, permanent TLS shape, HTTP status,
\* transport timeout or connection failure: a transport error that carries
\* a context shape, or a permanent TLS shape, is not retried even when it is
\* also a timeout or a connection failure; one with neither is retried
\* exactly when it is a timeout or a connection failure; and the error of
\* a response carries no transport shape, so it is classified by its status.
C38_ClassifierPrecedence ==
    call.done =>
        /\ call.arg.kind = "error" =>
              /\ call.arg.shapes \cap ContextShapes # {} => ~call.res
              /\ call.arg.shapes \cap PermanentTLSShapes # {} => ~call.res
              /\ call.arg.shapes \cap (ContextShapes \cup PermanentTLSShapes) = {} =>
                    (call.res <=> call.arg.shapes \cap RetriedShapes # {})
        /\ call.arg.kind = "response" /\ ~Is2xx(call.arg) =>
              /\ call.err.tags \cap TransportShapes = {}
              /\ call.res <=> (call.arg.code = 429 \/ call.arg.code >= 500)

C38_Witness ==
    /\ call.done
    /\ call.arg = TransportFailure({"DeadlineExceeded", "netTimeout"})
    /\ {"ErrDoRequest", "DeadlineExceeded", "netTimeout"} \subseteq call.err.tags
    /\ ~call.res


\* C39: a PostAlerts call that has begun returns, whatever the upstream
\* answers and whenever the context ends; while it runs, the attempt number
\* stays within 1..attempts, so the loop's condition never ends it and the
\* return behind the loop is not taken.
C39_PostAlertsTerminates ==
    /\ [](\A r \in Requests :
            pc[r] \in {"attempt", "failed", "sleep"} =>
                attempt[r] >= 1 /\ attempt[r] <= attempts)
    /\ \A r \in Requests : (pc[r] = "attempt") ~> Returned(r)

C39_Witness ==
    \E r \in Requests :
        /\ Returned(r)
        /\ attempt[r] = attempts
        /\ outcomes[r] = <<Response(503), TransportFailure({"OpError"}), Response(429)>>
        /\ postErr[r] = UpstreamNon2xxErr(429)


\* The labels the alert of a request has to carry, from the configuration.
ExpectedLabels(work) ==
    forwarderLabels(cfg.Defaults.Labels, apps[work.token].Labels,
                    IF apps[work.token].AlertName # "" THEN apps[work.token].AlertName
                    ELSE cfg.Defaults.AlertName,
                    apps[work.token].Name,
                    ExpectedSeverity(SeverityMapFor(apps[work.token]), work.priority),
                    work.priority, work.id)

\* C40: whatever requests run and however they interleave, every map that
\* exists when startup is over (the configuration's, the forwarder's
\* default labels, every identity's label and severity map) keeps its
\* contents, so a token's identity stays what the configuration says; a
\* request writes only to a map allocated for it, which no other request
\* holds; and the labels it sends are those of its own app, priority and
\* id.
C40_SharedMapsUnchanged ==
    call.fn = "forward" =>
        /\ \A ref \in DOMAIN StartupHeap : call.heap[ref] = StartupHeap[ref]
        /\ \A token \in DOMAIN cfg.Apps :
              /\ call.heap[TableRefs[token].Labels] = apps[token].Labels
              /\ call.heap[TableRefs[token].SeverityFromPriority]
                    = apps[token].SeverityFromPriority
        /\ \A r \in Requests :
              call.work[r].pc # "idle" =>
                  /\ call.work[r].labels \notin DOMAIN StartupHeap
                  /\ \A other \in Requests \ {r} :
                        call.work[other].pc # "idle" =>
                            call.work[other].labels # call.work[r].labels
                  /\ call.work[r].pc = "done" =>
                        call.work[r].posted = ExpectedLabels(call.work[r])

C40_Witness ==
    /\ call.fn = "forward"
    /\ call.work[1].pc = "done"
    /\ call.work[2].pc = "done"
    /\ call.work[1].token = "TOKEN_A"
    /\ call.work[2].token = "TOKEN_B"
    /\ call.work[1].id = 2
    /\ call.work[1].posted["source"] = "nas"
    /\ call.work[2].posted["source"] = "gotilert"

====
